---- MODULE Spec2Model ----
(***************************************************************************)
(* A model of the typst evaluator (crates/typst/src/eval/mod.rs and        *)
(* scope.rs): the VM registers (flow, depth, route, traced), the scope     *)
(* stack, the tracer and the recursive descent over blocks, loops, calls   *)
(* and imports.                                                            *)
(*                                                                         *)
(* The evaluator is a recursive tree walk.  The model keeps the Rust call  *)
(* stack explicitly: `stack` holds one frame per evaluation that has been  *)
(* entered and has not returned yet.  The program text is not fixed: every *)
(* step picks the next syntax node the walk meets, so the reachable states *)
(* cover every program up to the bounds.                                   *)
(***************************************************************************)
EXTENDS Integers, Sequences, FiniteSets, TLC

VARIABLES
    m,        \* the evaluator: VM registers, scope stack, call stack, result
    ret,      \* observation: the last evaluation that returned
    op        \* observation: the last leaf expression that was evaluated

vars == <<m, ret, op>>

(***************************************************************************)
(* Bounds of the model and constants of the program.                       *)
(***************************************************************************)
MaxNest == 2

MaxItems == 2

MaxPending == 1

MaxCalls == 1

MaxSeen == 11

MaxTraced == 2

MaxPat == 3

MaxLen == 3

MaxBlocks == 1

\* The scopes entered on top of the first one in the scope-stack machine.
MaxScopes == 1

\* The import statements of one file.
MaxStmts == 2

\* The expressions of the sequence whose result is followed.
MaxExprs == 4

MAX_ITERATIONS == 10000

MAX_CALL_DEPTH == 64

Tracer_MAX == 10

Names == {"x"}

Vals == {1, 2}

\* Positions in a file: 1 is where the traced span points, if it points
\* into the file.
Positions == {1, 2}

(***************************************************************************)
(* Option values: None is the empty sequence, Some(v) a singleton.         *)
(***************************************************************************)
None == <<>>

Some(v) == <<v>>

(***************************************************************************)
(* scope.rs: Slot, Scope, Scopes.                                          *)
(***************************************************************************)
Slot_new(value, kind) == [value |-> value, kind |-> kind]

Scope_new == [n \in {} |-> Slot_new(0, "Normal")]

Scope_define(s, name, value) ==
    [n \in DOMAIN s \cup {name} |->
        IF n = name THEN Slot_new(value, "Normal") ELSE s[n]]

\* define_captured with Kind::Normal in the place of Kind::Captured.
Scope_define_captured_mutable(s, var, value) ==
    [n \in DOMAIN s \cup {var} |->
        IF n = var THEN Slot_new(value, "Normal") ELSE s[n]]

Scope_define_captured(s, var, value) ==
    [n \in DOMAIN s \cup {var} |->
        IF n = var THEN Slot_new(value, "Captured") ELSE s[n]]

Scope_get(s, var) == IF var \in DOMAIN s THEN Some(s[var].value) ELSE None

\* The global scope of the standard library (Scopes.base).
Library_global == [n \in {"lib"} |-> Slot_new(0, "Normal")]

Scopes_new == [top |-> Scope_new, scopes |-> <<>>]

Scopes_enter(sc) ==
    [top |-> Scope_new, scopes |-> Append(sc.scopes, sc.top)]

Scopes_exit(sc) ==
    [top |-> sc.scopes[Len(sc.scopes)],
     scopes |-> SubSeq(sc.scopes, 1, Len(sc.scopes) - 1)]

\* once(top).chain(scopes.iter().rev()): level 0 is the top scope,
\* level k > 0 is scopes[Len(scopes) - k + 1].
Scopes_level(sc, k) ==
    IF k = 0 THEN sc.top ELSE sc.scopes[Len(sc.scopes) - k + 1]

Scopes_find(sc, var) ==
    {k \in 0..Len(sc.scopes) : var \in DOMAIN Scopes_level(sc, k)}

Min(S) == CHOOSE k \in S : \A j \in S : k <= j

Max(S) == CHOOSE k \in S : \A j \in S : k >= j

\* Scopes::get with the scopes searched from the outermost inwards.
Scopes_get_outermost(sc, var) ==
    IF Scopes_find(sc, var) # {}
    THEN Scope_get(Scopes_level(sc, Max(Scopes_find(sc, var))), var)
    ELSE Scope_get(Library_global, var)

Scopes_get(sc, var) ==
    IF Scopes_find(sc, var) # {}
    THEN Scope_get(Scopes_level(sc, Min(Scopes_find(sc, var))), var)
    ELSE Scope_get(Library_global, var)

(***************************************************************************)
(* maybe_mut.rs (not part of the sources at hand): the result of           *)
(* get_maybe_mut is a location (the level of the scope holding the slot)   *)
(* or an immutable copy with the reason why it cannot be written.          *)
(***************************************************************************)
MaybeMut_Mut(level) == [tag |-> "Mut", level |-> level]

MaybeMut_Im(value, reason) == [tag |-> "Im", value |-> value, reason |-> reason]

MaybeMut_Err(msg) == [tag |-> "Err", msg |-> msg]

\* Slot::get_maybe_mut that hands out a location for every kind of slot.
Slot_get_maybe_mut_always(slot, level) == MaybeMut_Mut(level)

Slot_get_maybe_mut(slot, level) ==
    IF slot.kind = "Normal"
    THEN MaybeMut_Mut(level)
    ELSE MaybeMut_Im(slot.value, "Captured")

Scopes_get_maybe_mut(sc, var) ==
    IF Scopes_find(sc, var) # {}
    THEN LET k == Min(Scopes_find(sc, var))
         IN  Slot_get_maybe_mut(Scopes_level(sc, k)[var], k)
    ELSE IF var \in DOMAIN Library_global
         THEN MaybeMut_Im(Library_global[var].value, "Const")
         ELSE MaybeMut_Err("unknown variable")

\* Writing through a location: "*location = value".
Scopes_store(sc, level, var, value) ==
    IF level = 0
    THEN [sc EXCEPT !.top[var].value = value]
    ELSE [sc EXCEPT !.scopes[Len(sc.scopes) - level + 1][var].value = value]

\* MaybeMut::mutate on an immutable value fails with the reason.
MaybeMut_mutate_error(reason) ==
    CASE reason = "Const" -> "cannot mutate a constant"
      [] reason = "Captured" -> "variables from outside the function are read-only"
      [] OTHER -> "cannot mutate a temporary value"

(***************************************************************************)
(* FlowEvent and the VM.                                                   *)
(***************************************************************************)
FlowEvent(kind, span) == [kind |-> kind, span |-> span]

FlowKinds == {"Break", "Continue", "Return"}

\* The span of a break / continue / return statement: 1 for a statement met
\* while no event is pending, 2 for one met while an event is pending.
Span_of(mm) == IF mm.flow = None THEN 1 ELSE 2

FlowEvent_forbidden(flow) ==
    CASE flow.kind = "Break" -> "cannot break outside of loop"
      [] flow.kind = "Continue" -> "cannot continue outside of loop"
      [] flow.kind = "Return" -> "cannot return outside of function"

(***************************************************************************)
(* Route and Tracer.  A route is the chain of file ids from the innermost  *)
(* link outwards; Route::default() is the empty chain.                     *)
(***************************************************************************)
Route_default == <<>>

\* Route::new used in the place of Route::insert: the outer chain is lost.
Route_insert_unlinked(outer, id) == <<id>>

Route_insert(outer, id) == <<id>> \o outer

Route_contains(route, id) == \E i \in DOMAIN route : route[i] = id

\* A span is a file id and a position in the file.
Span(id, pos) == [id |-> id, pos |-> pos]

Tracer_new(span) == [span |-> span, values |-> <<>>]

\* Tracer::span: the traced span if it lies in the given file.
Tracer_span(tracer, id) ==
    IF tracer.span # None /\ tracer.span[1].id = id THEN tracer.span ELSE None

\* Tracer::trace with <= in the place of <.
Tracer_trace_late(tracer, v) ==
    IF Len(tracer.values) <= Tracer_MAX
    THEN [tracer EXCEPT !.values = Append(@, v)]
    ELSE tracer

\* Tracer::trace.
Tracer_trace(tracer, v) ==
    IF Len(tracer.values) < Tracer_MAX
    THEN [tracer EXCEPT !.values = Append(@, v)]
    ELSE tracer

(***************************************************************************)
(* The VM and the machine around it.  The registers of the VM in charge    *)
(* are fields of the machine; the VM of a caller waits in the "module"     *)
(* frame of the evaluation it called.                                      *)
(***************************************************************************)
\* FileId::detached().
Detached == 0

\* Vm::new: no flow event, depth 0, the traced span if it is in this file.
Vm_new(tracer, route, location) ==
    [flow |-> None, depth |-> 0, route |-> route, location |-> location,
     traced |-> Tracer_span(tracer, location)]

Registers(mm) ==
    [flow |-> mm.flow, depth |-> mm.depth, route |-> mm.route,
     location |-> mm.location, traced |-> mm.traced, sc |-> mm.sc]

\* The evaluator before any entry point has been called.  `seen` is an
\* observation: the values handed to the tracer so far.
Machine_idle ==
    [pc |-> "idle", entry |-> "none", flow |-> None, depth |-> 0,
     route |-> Route_default, location |-> Detached, traced |-> None,
     tracer |-> Tracer_new(None), seen |-> <<>>,
     sc |-> Scopes_new, stack |-> <<>>, err |-> None, result |-> None]

Top(mm) == mm.stack[Len(mm.stack)]

Pop(stack) == SubSeq(stack, 1, Len(stack) - 1)

\* The frame of a statement sequence: eval_markup or eval_code.  `saved` is
\* the local `flow`, `entry` the depth of the scope stack when the node was
\* entered, `st` is "head" between two expressions of the sequence and "mid"
\* while one of them is being evaluated.
SeqFrame(kind, scoped, saved, entry) ==
    [kind |-> kind, scoped |-> scoped, saved |-> saved, entry |-> entry,
     st |-> "head"]

\* The frame of eval / eval_string: the caller's VM and scopes, and who
\* called: "top" for a call from outside, "import" for an import or include.
ModuleFrame(caller, imports) ==
    [kind |-> "module", caller |-> caller, imports |-> imports, entry |-> 0]


IsSeq(f) == f.kind \in {"markup", "code"}

\* The expression under evaluation in the enclosing sequence has begun.
Mid(stack) ==
    IF stack # <<>> /\ IsSeq(stack[Len(stack)])
    THEN [stack EXCEPT ![Len(stack)].st = "mid"]
    ELSE stack

\* The choice of the root in eval: a VM with a traced span takes the markup
\* as it is, any other asks source.ast() and leaves through `?` when the
\* source has syntax errors.  eval_string returns the errors of its parse.
\* `parsed` says that the source has no syntax errors; the result is whether
\* there is a root to evaluate.
eval_root(entry, traced, parsed) ==
    IF entry = "eval" /\ traced # None THEN TRUE ELSE parsed

\* eval, from "Prevent cyclic evaluation" (a panic) to the evaluation of the
\* root (the root is markup), and eval_string (the root is code, the route is
\* Route::default(), the file is detached).
eval_enter(mm, entry, id, imports, parsed) ==
    LET route == IF entry = "eval" THEN Route_insert(mm.route, id)
                 ELSE Route_default
        tracer == IF entry = "eval" THEN mm.tracer ELSE Tracer_new(None)
        vm == Vm_new(tracer, route, id)
        module == Append(Mid(mm.stack), ModuleFrame(Registers(mm), imports))
    IN  IF entry = "eval" /\ Route_contains(mm.route, id)
        THEN [mm EXCEPT !.pc = "panic"]
        ELSE
        [mm EXCEPT !.pc = "eval", !.entry = IF imports = "top" THEN entry ELSE @,
                   !.tracer = tracer,
                   !.flow = vm.flow, !.depth = vm.depth,
                   !.route = vm.route, !.location = vm.location,
                   !.traced = vm.traced,
                   !.sc = Scopes_new,
                   !.err = IF eval_root(entry, vm.traced, parsed) THEN @
                           ELSE Some("syntax error"),
                   !.stack =
                      IF eval_root(entry, vm.traced, parsed)
                      THEN Append(module,
                                  SeqFrame(IF entry = "eval" THEN "markup"
                                           ELSE "code", FALSE, vm.flow, 0))
                      ELSE module]

\* The outcome of eval without the check for a pending event.
eval_result_unchecked(mm) ==
    IF mm.err # None
    THEN [ok |-> FALSE, msg |-> mm.err[1]]
    ELSE [ok |-> TRUE, scope |-> mm.sc.top, id |-> mm.location]

\* The outcome of eval with "result?" ahead of the check for a pending
\* event.
eval_result_error_first(mm) ==
    IF mm.err # None
    THEN [ok |-> FALSE, msg |-> mm.err[1]]
    ELSE IF mm.flow # None
         THEN [ok |-> FALSE, msg |-> FlowEvent_forbidden(mm.flow[1])]
         ELSE [ok |-> TRUE, scope |-> mm.sc.top, id |-> mm.location]

\* The outcome of eval, from "Handle control flow" on: the check for a
\* pending event comes first, then the module is assembled from the top
\* scope and the result of the root.
eval_result(mm) ==
    IF mm.flow # None
    THEN [ok |-> FALSE, msg |-> FlowEvent_forbidden(mm.flow[1])]
    ELSE IF mm.err # None
         THEN [ok |-> FALSE, msg |-> mm.err[1]]
         ELSE [ok |-> TRUE, scope |-> mm.sc.top, id |-> mm.location]

\* The return of eval / eval_string to a caller outside the evaluator.  The
\* registers of the VM stay as they were when it was dropped.
eval_finish(mm) ==
    [mm EXCEPT !.pc = "done", !.stack = Pop(@),
               !.result = Some(eval_result(mm))]

\* CodeBlock::eval / ContentBlock::eval up to the first expression:
\* scopes.enter(), then eval_code / eval_markup takes the pending event.
\* A sequence without a scope of its own is the body of a markup element
\* (strong, emph, heading): Markup::eval.
seq_enter(mm, kind, scoped) ==
    [mm EXCEPT !.sc = IF scoped THEN Scopes_enter(@) ELSE @,
               !.flow = None,
               !.stack = Append(Mid(@), SeqFrame(kind, scoped, mm.flow,
                                                 Len(mm.sc.scopes)))]

\* The end of a sequence that puts the saved event back only when the
\* sequence left none of its own.
seq_exit_own(mm) ==
    [mm EXCEPT !.flow = IF @ = None THEN Top(mm).saved ELSE @,
               !.sc = IF Top(mm).scoped THEN Scopes_exit(@) ELSE @,
               !.stack = Pop(@)]

\* The end of eval_markup / eval_code (the saved event is put back), then
\* scopes.exit() in the block.
\* The end of a sequence without "scopes.exit()".
seq_exit_stay(mm) ==
    [mm EXCEPT !.flow = IF Top(mm).saved # None THEN Top(mm).saved ELSE @,
               !.stack = Pop(@)]

seq_exit(mm) ==
    [mm EXCEPT !.flow = IF Top(mm).saved # None THEN Top(mm).saved ELSE @,
               !.sc = IF Top(mm).scoped THEN Scopes_exit(@) ELSE @,
               !.stack = Pop(@)]

\* "if vm.flow.is_some() { break; }" after an expression, not taken.
seq_next(mm) == [mm EXCEPT !.stack[Len(mm.stack)].st = "head"]

\* An error leaves the function through `?`: nothing after it runs.
propagate(mm) == [mm EXCEPT !.stack = Pop(@)]

fail(mm, msg) == [mm EXCEPT !.err = Some(msg), !.stack = Mid(@)]

\* A break, continue or return that sets the slot whatever it holds.
Flow_eval_overwrite(mm, kind, span) ==
    [mm EXCEPT !.flow = Some(FlowEvent(kind, span)), !.stack = Mid(@)]

\* "Ok(Value::None)" at the end of the three.
Flow_value(kind) == "None"

\* LoopBreak::eval, LoopContinue::eval, FuncReturn::eval.
Flow_eval(mm, kind, span) ==
    [mm EXCEPT !.flow = IF @ = None THEN Some(FlowEvent(kind, span)) ELSE @,
               !.stack = Mid(@)]

\* "if vm.traced == Some(span) { vm.vt.tracer.trace(v.clone()); }".
Vm_trace(mm, span, v) ==
    IF mm.traced = Some(span)
    THEN [mm EXCEPT !.tracer = Tracer_trace(@, v), !.seen = Append(@, v)]
    ELSE mm

\* Expr::eval of an expression at `span` whose value is v.
Expr_eval(mm, span, v) == [Vm_trace(mm, span, v) EXCEPT !.stack = Mid(@)]

\* Vm::define that only traces, and defines nothing, when the span of the
\* identifier is the traced one.
Vm_define_untraced(mm, var, span, value) ==
    IF mm.traced = Some(span)
    THEN Vm_trace(mm, span, value)
    ELSE [mm EXCEPT !.sc.top = Scope_define(@, var, value)]

\* Vm::define: `span` is the span of the identifier.
Vm_define(mm, var, span, value) ==
    [Vm_trace(mm, span, value) EXCEPT !.sc.top = Scope_define(@, var, value)]

\* LetBinding::eval with an identifier pattern.
LetBinding_eval(mm, var, span, value) ==
    [Vm_define(mm, var, span, value) EXCEPT !.stack = Mid(@)]

\* Binary::assign with an identifier on the left.
Binary_assign(mm, var, value) ==
    LET loc == Scopes_get_maybe_mut(mm.sc, var)
    IN  CASE loc.tag = "Mut" ->
               [mm EXCEPT !.sc = Scopes_store(@, loc.level, var, value),
                          !.stack = Mid(@)]
          [] loc.tag = "Im" -> fail(mm, MaybeMut_mutate_error(loc.reason))
          [] loc.tag = "Err" -> fail(mm, loc.msg)

\* Ident::eval.
Ident_eval(mm, var) ==
    IF Scopes_get(mm.sc, var) = None
    THEN fail(mm, "unknown variable")
    ELSE [mm EXCEPT !.stack = Mid(@)]

(***************************************************************************)
(* ForLoop::eval.  `len` is the length of the iterated collection, `left`  *)
(* the number of values the iterator still holds, `runs` the number of     *)
(* times the body has been entered; `st` is "iter" at the head of the      *)
(* `for` and "body" while the body is evaluated.                           *)
(***************************************************************************)
ForFrame(saved, entry, left) ==
    [kind |-> "for", saved |-> saved, entry |-> entry, st |-> "iter",
     len |-> left, left |-> left, runs |-> 0]

\* "let flow = vm.flow.take()", the iterable, then scopes.enter() in iter!.
ForLoop_enter(mm, n) ==
    [mm EXCEPT !.flow = None,
               !.sc = Scopes_enter(@),
               !.stack = Append(Mid(@), ForFrame(mm.flow, Len(mm.sc.scopes), n))]

\* The iterable is of a type the pattern cannot loop over.
ForLoop_bail(mm) == fail([mm EXCEPT !.flow = None], "cannot loop over")

\* The end of iter! and of ForLoop::eval: scopes.exit(), the saved event
\* is put back.
ForLoop_exit(mm) ==
    [mm EXCEPT !.sc = Scopes_exit(@),
               !.flow = IF Top(mm).saved # None THEN Top(mm).saved ELSE @,
               !.stack = Pop(@)]

\* One turn of the `for`: the pattern is defined, the body entered.
ForLoop_next(mm, var, span, value, body) ==
    seq_enter(Vm_define([mm EXCEPT !.stack[Len(mm.stack)].left = @ - 1,
                                   !.stack[Len(mm.stack)].runs = @ + 1,
                                   !.stack[Len(mm.stack)].st = "body"],
                        var, span, value),
              body, TRUE)

\* "match vm.flow" after the body.
ForLoop_after(mm) ==
    LET k == IF mm.flow = None THEN "None" ELSE mm.flow[1].kind
    IN  CASE k = "Break" -> ForLoop_exit([mm EXCEPT !.flow = None])
          [] k = "Continue" ->
               [mm EXCEPT !.flow = None, !.stack[Len(mm.stack)].st = "iter"]
          [] k = "Return" -> ForLoop_exit(mm)
          [] OTHER -> [mm EXCEPT !.stack[Len(mm.stack)].st = "iter"]

(***************************************************************************)
(* WhileLoop::eval.  `i` is the counter of the loop, `runs` the number of  *)
(* times the body has been entered and `joined` the number of values of    *)
(* the body joined into `output`; `st` is "cond" when the condition is     *)
(* due and "body" while the body is evaluated.                             *)
(***************************************************************************)
WhileFrame(saved, entry) ==
    [kind |-> "while", scoped |-> FALSE, saved |-> saved, entry |-> entry,
     st |-> "cond", i |-> 0, runs |-> 0, joined |-> 0]

\* "let flow = vm.flow.take()".
WhileLoop_enter(mm) ==
    [mm EXCEPT !.flow = None,
               !.stack = Append(Mid(@), WhileFrame(mm.flow, Len(mm.sc.scopes)))]

\* "if flow.is_some() { vm.flow = flow; }" and the return.
WhileLoop_exit(mm) ==
    [mm EXCEPT !.flow = IF Top(mm).saved # None THEN Top(mm).saved ELSE @,
               !.stack = Pop(@)]

\* "i >= MAX_ITERATIONS" with > in the place of >=.
WhileLoop_limit_late(i) == i > MAX_ITERATIONS

WhileLoop_limit(i) == i >= MAX_ITERATIONS

\* The condition has been evaluated to `cond` ("true", "false", or "err"
\* when it fails or is not a boolean); `always` says whether the condition
\* is_invariant and the body cannot diverge.  On "true" the two checks come
\* first, then the body (a block) is entered.
WhileLoop_cond(mm, cond, always, body) ==
    CASE cond = "err" -> fail(mm, "expected boolean")
      [] cond = "false" -> WhileLoop_exit(mm)
      [] OTHER ->
           IF Top(mm).i = 0 /\ always
           THEN fail(mm, "condition is always true")
           ELSE IF WhileLoop_limit(Top(mm).i)
                THEN fail(mm, "loop seems to be infinite")
                ELSE seq_enter([mm EXCEPT !.stack[Len(mm.stack)].st = "body",
                                          !.stack[Len(mm.stack)].runs = @ + 1],
                               body, TRUE)

\* The match after the body with an arm of Break that leaves the event set.
WhileLoop_after_keep(mm) ==
    LET k == IF mm.flow = None THEN "None" ELSE mm.flow[1].kind
    IN  CASE k \in {"Break", "Return"} -> WhileLoop_exit(mm)
          [] OTHER -> [mm EXCEPT !.flow = None,
                                 !.stack[Len(mm.stack)].joined = @ + 1,
                                 !.stack[Len(mm.stack)].i = @ + 1,
                                 !.stack[Len(mm.stack)].st = "cond"]

\* The match after the body with an arm of Continue that skips "i += 1".
WhileLoop_after_skip(mm) ==
    LET k == IF mm.flow = None THEN "None" ELSE mm.flow[1].kind
    IN  CASE k = "Break" -> WhileLoop_exit([mm EXCEPT !.flow = None])
          [] k = "Return" -> WhileLoop_exit(mm)
          [] OTHER -> [mm EXCEPT !.flow = None,
                                 !.stack[Len(mm.stack)].joined = @ + 1,
                                 !.stack[Len(mm.stack)].i =
                                     IF k = "Continue" THEN @ ELSE @ + 1,
                                 !.stack[Len(mm.stack)].st = "cond"]

\* "output = ops::join(output, value)", "match vm.flow" after the body,
\* then "i += 1".
WhileLoop_after(mm) ==
    LET k == IF mm.flow = None THEN "None" ELSE mm.flow[1].kind
    IN  CASE k = "Break" -> WhileLoop_exit([mm EXCEPT !.flow = None])
          [] k = "Return" -> WhileLoop_exit(mm)
          [] OTHER -> [mm EXCEPT !.flow = None,
                                 !.stack[Len(mm.stack)].joined = @ + 1,
                                 !.stack[Len(mm.stack)].i = @ + 1,
                                 !.stack[Len(mm.stack)].st = "cond"]

(***************************************************************************)
(* The world: the files of the project (1 is main.typ, 2 is a.typ) and of  *)
(* the package p (3 is its entrypoint lib.typ, 4 is util.typ).  FileId,    *)
(* PackageManifest and World are not part of the sources at hand.          *)
(***************************************************************************)
Files == 1..4

Package_of(id) == IF id \in {3, 4} THEN "p" ELSE "none"

\* manifest_id.join(&manifest.package.entrypoint) for the package p.
Entrypoint == 3

\* vm.location().join(path) and world.source(id): a path stays inside the
\* project or the package of the importing file.
World_source(location, target) ==
    IF Package_of(target) = Package_of(location) THEN Some(target) ELSE None

\* The value of a module: modules are compared by handle.
Module_value(id) == 10 + id

Module_name(id) ==
    CASE id = 1 -> "main" [] id = 2 -> "a" [] id = 3 -> "lib" [] OTHER -> "util"

\* import_file.
import_file(mm, target) ==
    IF World_source(mm.location, target) = None
    THEN fail(mm, "file not found")
    ELSE IF Route_contains(mm.route, target)
         THEN fail(mm, "cyclic import")
         ELSE eval_enter(mm, "eval", target, "import", TRUE)

\* import_package: the manifest, the entrypoint, then eval.
import_package(mm) == eval_enter(mm, "eval", Entrypoint, "import", TRUE)

\* The errors of an explicit list cut down to one.
Imports_unresolved_first(scope, idents) ==
    IF idents \ DOMAIN scope = {} THEN {}
    ELSE {CHOOSE n \in idents \ DOMAIN scope : TRUE}

\* The identifiers of an explicit list for which apply_imports pushes an
\* "unresolved import" error.
Imports_unresolved(scope, idents) == idents \ DOMAIN scope

\* apply_imports on the scopes of the importing VM.  `idents` are the
\* names of an explicit list.
apply_imports(mm, imports, module, idents) ==
    CASE imports = "bare" ->
           [mm EXCEPT !.sc.top = Scope_define(@, Module_name(module.id),
                                              Module_value(module.id))]
      [] imports = "wildcard" ->
           [mm EXCEPT !.sc.top =
               [n \in DOMAIN @ \cup DOMAIN module.scope |->
                   IF n \in DOMAIN module.scope
                   THEN Slot_new(module.scope[n].value, "Normal")
                   ELSE @[n]]]
      [] imports = "items" ->
           [mm EXCEPT !.sc.top =
               [n \in DOMAIN @ \cup (idents \cap DOMAIN module.scope) |->
                   IF n \in idents \cap DOMAIN module.scope
                   THEN Slot_new(module.scope[n].value, "Normal")
                   ELSE @[n]],
                      !.err = IF Imports_unresolved(module.scope, idents) = {}
                              THEN None ELSE Some("unresolved import")]
      [] OTHER -> mm

\* The return of a nested eval into import_file / import_package, and the
\* rest of ModuleImport::eval / ModuleInclude::eval in the importing VM:
\* `imports` is "include" for an include and else the form of the import.
import_return(mm, imports, idents) ==
    LET r == eval_result(mm)
        c == Top(mm).caller
        back == [mm EXCEPT !.flow = c.flow, !.depth = c.depth,
                           !.route = c.route, !.location = c.location,
                           !.traced = c.traced, !.sc = c.sc,
                           !.stack = Pop(@), !.err = None]
    IN  IF r.ok THEN apply_imports(back, imports, r, idents)
        ELSE [back EXCEPT !.err = Some(r.msg)]

(***************************************************************************)
(* FuncCall::eval_maybe_mut.  The frame "args" stands for the evaluation   *)
(* of the callee, the target and the arguments; `found` is the depth the   *)
(* call found on entry.  Func::call_vm and Closure::call (func.rs) and     *)
(* methods::call (methods.rs) are not part of the sources at hand: a call  *)
(* of a closure runs the body in a new VM one level deeper, with scopes    *)
(* built from the captured values, and the VM of the caller waits in the   *)
(* "call" frame.                                                           *)
(***************************************************************************)
ArgsFrame(form, found, entry) ==
    [kind |-> "args", form |-> form, found |-> found, scoped |-> FALSE,
     entry |-> entry]

CallFrame(caller, found) ==
    [kind |-> "call", caller |-> caller, found |-> found, entry |-> 0]

\* "if vm.depth >= MAX_CALL_DEPTH" with > in the place of >=.
FuncCall_depth_exceeded_late(depth) == depth > MAX_CALL_DEPTH

FuncCall_depth_exceeded(depth) == depth >= MAX_CALL_DEPTH

\* The head of FuncCall::eval_maybe_mut: the depth check, then the callee
\* and the arguments.
FuncCall_enter(mm, form) ==
    IF FuncCall_depth_exceeded(mm.depth)
    THEN fail(mm, "maximum function call depth exceeded")
    ELSE [mm EXCEPT !.stack = Append(Mid(@), ArgsFrame(form, mm.depth,
                                                        Len(mm.sc.scopes)))]

\* The forms of a call and what the callee can turn out to be: methods::call
\* for a method, eval_non_func_in_math for a non-function in math, and else
\* a function that is native or a closure.
CallForms == {"plain", "method", "math"}

Dispatch(form) ==
    CASE form = "method" -> {"native", "closure"}
      [] form = "math" -> {"nonfunc", "native", "closure"}
      [] OTHER -> {"native", "closure"}

\* Func::call_vm on a closure: a new VM with the depth of the caller plus
\* one and fresh scopes holding the captured values; the body is a code
\* block.
Func_call_vm(mm, captured) ==
    LET inner == [mm EXCEPT !.flow = None, !.depth = mm.depth + 1,
                            !.sc = [top |-> captured, scopes |-> <<>>],
                            !.stack = Append(Pop(@),
                                         CallFrame(Registers(mm), Top(mm).found))]
    IN  seq_enter(inner, "code", TRUE)

\* A native function, a method or a non-function in math: no new VM.
Native_call(mm, ok) ==
    IF ok THEN [mm EXCEPT !.stack = Pop(@)]
    ELSE [mm EXCEPT !.stack = Pop(@), !.err = Some("call failed")]

\* The end of Closure::call: an error of the body, or a break / continue
\* that escaped the body, is the error of the call; a return ends the body.
Closure_call_result(mm) ==
    IF mm.err # None THEN mm.err
    ELSE IF mm.flow # None /\ mm.flow[1].kind # "Return"
         THEN Some(FlowEvent_forbidden(mm.flow[1]))
         ELSE None

\* Back in the VM of the caller.
Func_call_return(mm) ==
    LET c == Top(mm).caller
    IN  [mm EXCEPT !.flow = c.flow, !.depth = c.depth, !.route = c.route,
                   !.location = c.location, !.traced = c.traced,
                   !.sc = c.sc, !.stack = Pop(@),
                   !.err = Closure_call_result(mm)]

(***************************************************************************)
(* Closure::eval.  The capture visitor (func.rs, not part of the sources   *)
(* at hand) copies the current value of every name the body refers to, if  *)
(* the name resolves, into a scope of captured slots.  `made` records what *)
(* a lookup of each name gave when the closure was made.                   *)
(***************************************************************************)
\* The names a closure body refers to.
Refs == Names \cup {"lib"}

RECURSIVE CapturesVisitor_visit(_, _, _)
CapturesVisitor_visit(sc, names, captures) ==
    IF names = {} THEN captures
    ELSE LET n == CHOOSE x \in names : TRUE
         IN  CapturesVisitor_visit(sc, names \ {n},
                 IF Scopes_get(sc, n) # None
                 THEN Scope_define_captured(captures, n, Scopes_get(sc, n)[1])
                 ELSE captures)

Closure_eval(mm) ==
    [tag |-> "closure", location |-> mm.location,
     captured |-> CapturesVisitor_visit(mm.sc, Refs, Scope_new),
     made |-> [n \in Names |-> Scopes_get(mm.sc, n)]]

\* "let f = (..) => body": LetBinding::eval of a closure binding.
Closure_define(mm, span) ==
    [Vm_define(mm, "f", span, Closure_eval(mm)) EXCEPT !.stack = Mid(@)]

\* A call of the closure f from FuncCall::eval_maybe_mut: the depth check,
\* then the body in a new VM.
Closure_call(mm, f) ==
    IF FuncCall_depth_exceeded(mm.depth)
    THEN fail(mm, "maximum function call depth exceeded")
    ELSE Func_call_vm(FuncCall_enter(mm, "plain"), f.captured)

(***************************************************************************)
(* Observations.  `ret` describes the evaluation that returned last: the   *)
(* node, how it ended, the depth of the scope stack at entry and on        *)
(* return, and what a lookup of each name gave at entry (kept up to date   *)
(* with the assignments to bindings that are older than the node), just    *)
(* before the return and after it; the event the node took at entry, the   *)
(* stage it returned from and the event pending when it did.  `op`         *)
(* describes the last leaf expression evaluated.                           *)
(***************************************************************************)
Visible(sc) == [n \in Names |-> Scopes_get(sc, n)]

NoRet == [kind |-> "none"]

NoOp == [kind |-> "none"]

Returned(before, after, how) ==
    [kind |-> Top(before).kind,
     scoped |-> Top(before).kind = "for" \/ Top(before).scoped,
     how |-> how,
     entry |-> Top(before).entry,
     exit |-> Len(after.sc.scopes),
     saved |-> IF "saved" \in DOMAIN Top(before)
               THEN Top(before).saved ELSE None,
     st |-> IF "st" \in DOMAIN Top(before) THEN Top(before).st ELSE "none",
     raised |-> before.flow,
     i |-> IF "i" \in DOMAIN Top(before) THEN Top(before).i ELSE 0,
     joined |-> IF "joined" \in DOMAIN Top(before)
                THEN Top(before).joined ELSE 0,
     expect |-> Top(before).snap,
     inner |-> Visible(before.sc),
     actual |-> Visible(after.sc)]

\* The frame pushed last gets the bindings visible before the step.
Snap(before, after) ==
    [after EXCEPT !.stack[Len(after.stack)] =
        [f \in DOMAIN @ \cup {"snap"} |->
            IF f = "snap" THEN Visible(before.sc) ELSE @[f]]]

\* The scope that holds the binding of var, counted from the bottom of the
\* scope stack (0 when there is none in the stack).
Holder(sc, var) ==
    IF Scopes_find(sc, var) = {} THEN 0
    ELSE Len(sc.scopes) + 1 - Min(Scopes_find(sc, var))

\* After an assignment to var: every frame entered after the scope holding
\* the binding was created expects the new value once it has returned.  A
\* frame entered at depth e found e + 1 scopes, the top scope included.
Assigned(before, after, var, value) ==
    IF after.err # None \/ Holder(before.sc, var) = 0 THEN after
    ELSE [after EXCEPT !.stack =
            [j \in DOMAIN after.stack |->
                IF /\ "snap" \in DOMAIN after.stack[j]
                   /\ Holder(before.sc, var) <= after.stack[j].entry + 1
                THEN [after.stack[j] EXCEPT !.snap[var] = Some(value)]
                ELSE after.stack[j]]]

(***************************************************************************)
(* Binary::apply.  An operand is a value: "true", "false" or "int" (a      *)
(* value that is not a boolean).  The frame of a binary expression: `st`   *)
(* is "lhs" before the left operand, "lhs_run" while it is evaluated,      *)
(* "rhs" and "rhs_run" likewise for the right one, "done" when the value   *)
(* of the expression is known; `runs` counts the evaluations of the right  *)
(* operand begun, `after_lhs` is an observation: the bindings visible when *)
(* the left operand had returned.                                          *)
(***************************************************************************)
Operands == {"true", "false", "int"}

BinOps == {"and", "or", "add"}

BinaryFrame(bop, entry) ==
    [kind |-> "binary", scoped |-> FALSE, entry |-> entry, bop |-> bop,
     st |-> "lhs", lhs |-> None, runs |-> 0, after_lhs |-> None,
     value |-> None]

\* A short circuit taken on the operand that does not decide the result.
Binary_short_circuit_swapped(bop, lhs) ==
    (bop = "and" /\ lhs = "true") \/ (bop = "or" /\ lhs = "false")

\* "Short-circuit boolean operations."
Binary_short_circuit(bop, lhs) ==
    (bop = "and" /\ lhs = "false") \/ (bop = "or" /\ lhs = "true")

\* ops::and, ops::or, ops::add: None is the mismatch of the operand types.
ops_apply(bop, lhs, rhs) ==
    CASE bop = "and" ->
            IF lhs = "int" \/ rhs = "int" THEN None
            ELSE Some(IF lhs = "true" /\ rhs = "true" THEN "true" ELSE "false")
      [] bop = "or" ->
            IF lhs = "int" \/ rhs = "int" THEN None
            ELSE Some(IF lhs = "true" \/ rhs = "true" THEN "true" ELSE "false")
      [] bop = "add" ->
            IF lhs = "int" /\ rhs = "int" THEN Some("int") ELSE None

\* self.lhs().eval(..) or self.rhs().eval(..) is called.
Binary_begin(mm) ==
    IF Top(mm).st = "lhs"
    THEN [mm EXCEPT !.stack[Len(mm.stack)].st = "lhs_run"]
    ELSE [mm EXCEPT !.stack[Len(mm.stack)].st = "rhs_run",
                    !.stack[Len(mm.stack)].runs = @ + 1]

\* The left operand has returned v: the short circuit, or on to the right.
Binary_lhs(mm, v) ==
    LET n == Len(mm.stack)
    IN  IF Binary_short_circuit(Top(mm).bop, v)
        THEN [mm EXCEPT !.stack[n].lhs = Some(v),
                        !.stack[n].after_lhs = Some(Visible(mm.sc)),
                        !.stack[n].value = Some(v),
                        !.stack[n].st = "done"]
        ELSE [mm EXCEPT !.stack[n].lhs = Some(v),
                        !.stack[n].after_lhs = Some(Visible(mm.sc)),
                        !.stack[n].st = "rhs"]

\* The right operand has returned v: op(lhs, rhs).at(self.span()).
Binary_rhs(mm, v) ==
    LET n == Len(mm.stack)
        value == ops_apply(Top(mm).bop, Top(mm).lhs[1], v)
    IN  IF value = None
        THEN fail(mm, "cannot apply operator")
        ELSE [mm EXCEPT !.stack[n].value = value, !.stack[n].st = "done"]

Binary_operand(mm, v) ==
    IF Top(mm).st = "lhs_run" THEN Binary_lhs(mm, v) ELSE Binary_rhs(mm, v)

\* Binary::eval with `and`, `or` or `+`, as a statement or as an operand of
\* another binary expression.
Binary_enter(mm, bop) ==
    LET at == IF Top(mm).kind = "binary" THEN Binary_begin(mm) ELSE mm
    IN  [at EXCEPT !.stack = Append(Mid(@),
                                    BinaryFrame(bop, Len(mm.sc.scopes)))]

\* An operand without operands of its own: a literal, an identifier that
\* does not resolve (out = "err"), or, with `assign`, a block that assigns
\* 2 to x before its value.
Operand_eval(mm, assign, out) ==
    LET begun == Binary_begin(mm)
        done == IF assign THEN Binary_assign(begun, "x", 2) ELSE begun
    IN  IF done.err # None THEN done
        ELSE IF out = "err" THEN fail(done, "unknown variable")
        ELSE Binary_operand(done, out)

\* Binary::apply returns its value to the sequence or to the binary
\* expression it is an operand of.
Binary_return(mm) ==
    LET popped == [mm EXCEPT !.stack = Pop(@)]
    IN  IF Top(popped).kind = "binary"
        THEN Binary_operand(popped, Top(mm).value[1])
        ELSE [popped EXCEPT !.stack = Mid(@)]

(***************************************************************************)
(* Pattern::destruct_array and Pattern::define.  The elements of an array  *)
(* are integers, Value_Int(k); the value of a sink is an array,            *)
(* Arr(items).  A binding of a pattern is an identifier (Normal), a sink   *)
(* with or without a name, a named pair or a placeholder.                  *)
(***************************************************************************)
Value_Int(k) == [int |-> k]

Arr(items) == [items |-> items]

PatNames == {"a", "b", "c"}

Bindings ==
    [kind : {"Normal"}, name : {Some(n) : n \in PatNames}]
    \cup [kind : {"Sink"}, name : {Some("s"), None}]
    \cup [kind : {"Named", "Placeholder"}, name : {None}]

\* value.at(i, None) read from the far end of the array.
Array_at_reversed(value, i) ==
    IF i < Len(value) THEN Some(value[Len(value) - i]) ELSE None

\* value.at(i as i64, None) with i >= 0.
Array_at(value, i) ==
    IF i < Len(value) THEN Some(value[i + 1]) ELSE None

\* The size of a sink without the binding of the sink itself counted in.
Sink_size_short(len, count) ==
    IF len >= count THEN Some(len - count) ELSE None

\* (1 + len).checked_sub(destruct.bindings().count()).
Sink_size(len, count) ==
    IF 1 + len >= count THEN Some(1 + len - count) ELSE None

\* value.as_slice().get(i..i + s).
Slice_get(value, i, s) ==
    IF i + s <= Len(value) THEN Some(SubSeq(value, i + 1, i + s)) ELSE None

\* The loop of destruct_array from binding j on, with i elements taken:
\* the calls of f made, in order, and the error the loop bailed with, if
\* any.
RECURSIVE Destruct_loop(_, _, _, _, _)
Destruct_loop(value, bindings, j, i, calls) ==
    IF j > Len(bindings)
    THEN [calls |-> calls,
          err |-> IF i < Len(value)
                  THEN Some("too many elements to destructure") ELSE None]
    ELSE
    LET p == bindings[j]
        size == Sink_size(Len(value), Len(bindings))
    IN  CASE p.kind = "Normal" ->
               IF Array_at(value, i) = None
               THEN [calls |-> calls,
                     err |-> Some("not enough elements to destructure")]
               ELSE Destruct_loop(value, bindings, j + 1, i + 1,
                       Append(calls, <<p.name[1], Array_at(value, i)[1]>>))
          [] p.kind = "Sink" ->
               IF size = None \/ Slice_get(value, i, size[1]) = None
               THEN [calls |-> calls,
                     err |-> Some("not enough elements to destructure")]
               ELSE Destruct_loop(value, bindings, j + 1, i + size[1],
                       IF p.name = None THEN calls
                       ELSE Append(calls,
                               <<p.name[1],
                                 Arr(Slice_get(value, i, size[1])[1])>>))
          [] p.kind = "Named" ->
               [calls |-> calls,
                err |-> Some("cannot destructure named elements from an array")]
          [] p.kind = "Placeholder" ->
               IF i < Len(value)
               THEN Destruct_loop(value, bindings, j + 1, i + 1, calls)
               ELSE [calls |-> calls,
                     err |-> Some("not enough elements to destructure")]

destruct_array(value, bindings) == Destruct_loop(value, bindings, 1, 0, <<>>)

\* The closure of Pattern::define applied to the calls of f: vm.define for
\* each identifier, at a span that is not the traced one.
RECURSIVE Define_all(_, _)
Define_all(mm, calls) ==
    IF calls = <<>> THEN mm
    ELSE Define_all(Vm_define(mm, calls[1][1], Span(mm.location, 2),
                              calls[1][2]),
                    Tail(calls))

\* Pattern::define with a destructuring pattern and an array: the bindings
\* made before an error stay.
Pattern_define(mm, value, bindings) ==
    LET d == destruct_array(value, bindings)
        defined == Define_all(mm, d.calls)
    IN  IF d.err = None THEN [defined EXCEPT !.stack = Mid(@)]
        ELSE fail(defined, d.err[1])

(***************************************************************************)
(* The steps of the evaluator.  Every step that is not the return of an    *)
(* evaluation forgets the last return; every step that is not a leaf       *)
(* expression forgets the last leaf.                                       *)
(***************************************************************************)
RunningOf(mm) ==
    mm.pc = "eval" /\ mm.err = None /\ Top(mm).kind \notin {"module", "call"}

InSeqOf(mm) == RunningOf(mm) /\ IsSeq(Top(mm))

Running == RunningOf(m)

InSeq == InSeqOf(m)

\* The nesting of blocks and loops in the file under evaluation.
Nesting(stack) ==
    Len(stack) - Max({0} \cup {j \in DOMAIN stack :
                                  stack[j].kind \in {"module", "call"}}) - 1

CanNest == Nesting(m.stack) < MaxNest

Init ==
    /\ m = Machine_idle
    /\ ret = NoRet
    /\ op = NoOp

\* A call of eval on one of the files F, or of eval_string.  The sources
\* of the world parse without errors; SpecPair has a source that does not.
Begin(F) ==
    /\ m.pc = "idle"
    /\ \/ \E id \in F : m' = Snap(m, eval_enter(m, "eval", id, "top", TRUE))
       \/ m' = Snap(m, eval_enter(m, "eval_string", Detached, "top", TRUE))
    /\ ret' = NoRet /\ op' = NoOp

\* A call of eval on one of the files F with a tracer whose span points
\* into a file of the project.
BeginTraced(F) ==
    /\ m.pc = "idle"
    /\ \E id \in F, f \in {1, 2} :
          m' = Snap(m, eval_enter([m EXCEPT !.tracer =
                                      Tracer_new(Some(Span(f, 1)))],
                                  "eval", id, "top", TRUE))
    /\ ret' = NoRet /\ op' = NoOp

Flow ==
    /\ InSeq
    /\ \E kind \in FlowKinds, span \in {Span_of(m)} :
          /\ m' = Flow_eval(m, kind, span)
          /\ op' = [kind |-> kind, span |-> span, before |-> m.flow,
                    value |-> Flow_value(kind)]
    /\ ret' = NoRet

\* A break, continue or return met while no event is pending.
FlowFresh == m.flow = None /\ Flow

Let ==
    /\ InSeq /\ Len(m.seen) < MaxSeen
    /\ \E var \in Names, value \in Vals, pos \in Positions :
          /\ m' = LetBinding_eval(m, var, Span(m.location, pos), value)
          /\ op' = [kind |-> "let", var |-> var, value |-> value]
    /\ ret' = NoRet

\* An expression without parts (a literal, say) at one of the positions.
Literal ==
    /\ InSeq /\ Len(m.seen) < MaxSeen
    /\ \E value \in Vals, pos \in Positions :
          /\ m' = Expr_eval(m, Span(m.location, pos), value)
          /\ op' = [kind |-> "expr", value |-> value,
                    traced |-> m.traced = Some(Span(m.location, pos))]
    /\ ret' = NoRet

Assign ==
    /\ InSeq
    /\ \E var \in Names \cup {"lib"}, value \in Vals :
          /\ m' = Assigned(m, Binary_assign(m, var, value), var, value)
          /\ op' = [kind |-> "assign", var |-> var, value |-> value]
    /\ ret' = NoRet

Ident ==
    /\ InSeq
    /\ \E var \in Names :
          /\ m' = Ident_eval(m, var)
          /\ op' = [kind |-> "ident", var |-> var,
                    value |-> Scopes_get(m.sc, var)]
    /\ ret' = NoRet

Fail ==
    /\ InSeq
    /\ m' = fail(m, "type error")
    /\ ret' = NoRet /\ op' = NoOp

EnterBlock ==
    /\ InSeq /\ CanNest
    /\ \E kind \in {"markup", "code"}, scoped \in BOOLEAN :
          /\ scoped \/ kind = "markup"
          /\ m' = Snap(m, seq_enter(m, kind, scoped))
    /\ ret' = NoRet /\ op' = NoOp

SeqNext ==
    /\ InSeq /\ Top(m).st = "mid" /\ m.flow = None
    /\ m' = seq_next(m)
    /\ ret' = NoRet /\ op' = NoOp

SeqBreak ==
    /\ InSeq /\ Top(m).st = "mid" /\ m.flow # None
    /\ m' = seq_exit(m)
    /\ ret' = Returned(m, m', "flow")
    /\ op' = NoOp

SeqEnd ==
    /\ InSeq /\ Top(m).st = "head"
    /\ m' = seq_exit(m)
    /\ ret' = Returned(m, m', "ok")
    /\ op' = NoOp

ForEnter ==
    /\ InSeq /\ CanNest
    /\ \E n \in 0..MaxItems : m' = Snap(m, ForLoop_enter(m, n))
    /\ ret' = NoRet /\ op' = NoOp

\* A loop that is not inside another block or loop of its file.  The long
\* loops are entered while no event is pending.
Outermost == Nesting(m.stack) = 0

\* A `for` over a collection that is empty or longer than MAX_ITERATIONS.
ForEnterLong ==
    /\ InSeq /\ Outermost /\ m.flow = None
    /\ \E n \in {0, MAX_ITERATIONS + 1} : m' = Snap(m, ForLoop_enter(m, n))
    /\ ret' = NoRet /\ op' = NoOp

WhileEnter ==
    /\ InSeq /\ Outermost /\ m.flow = None
    /\ m' = Snap(m, WhileLoop_enter(m))
    /\ ret' = NoRet /\ op' = NoOp

WhileCond ==
    /\ Running /\ Top(m).kind = "while" /\ Top(m).st = "cond"
    /\ \E cond \in {"true", "false", "err"}, always \in BOOLEAN :
          LET n == WhileLoop_cond(m, cond, always, "code")
          IN  /\ cond # "true" => ~always
              /\ m' = IF Len(n.stack) > Len(m.stack) THEN Snap(m, n) ELSE n
              /\ ret' = IF Len(n.stack) < Len(m.stack)
                        THEN Returned(m, n, "ok") ELSE NoRet
    /\ op' = NoOp

WhileAfter ==
    /\ Running /\ Top(m).kind = "while" /\ Top(m).st = "body"
    /\ m' = WhileLoop_after(m)
    /\ ret' = IF Len(m'.stack) < Len(m.stack)
              THEN Returned(m, m', IF m'.flow = None THEN "ok" ELSE "flow")
              ELSE NoRet
    /\ op' = NoOp

ForBail ==
    /\ InSeq
    /\ m' = ForLoop_bail(m)
    /\ ret' = NoRet /\ op' = NoOp

\* The values of the iterated collection are drawn from V.
ForNext(V) ==
    /\ Running /\ Top(m).kind = "for" /\ Top(m).st = "iter" /\ Top(m).left > 0
    /\ \E var \in Names, value \in V, body \in {"markup", "code"},
          pos \in Positions :
          /\ m' = Snap(Vm_define(m, var, Span(m.location, pos), value),
                       ForLoop_next(m, var, Span(m.location, pos), value,
                                    body))
          /\ op' = [kind |-> "pattern", var |-> var, value |-> value]
    /\ ret' = NoRet

ForAfter ==
    /\ Running /\ Top(m).kind = "for" /\ Top(m).st = "body"
    /\ m' = ForLoop_after(m)
    /\ ret' = IF Len(m'.stack) < Len(m.stack)
              THEN Returned(m, m', IF m'.flow = None THEN "ok" ELSE "flow")
              ELSE NoRet
    /\ op' = NoOp

ForDone ==
    /\ Running /\ Top(m).kind = "for" /\ Top(m).st = "iter" /\ Top(m).left = 0
    /\ m' = ForLoop_exit(m)
    /\ ret' = Returned(m, m', "ok")
    /\ op' = NoOp

\* A `while` anywhere a block may stand, whatever the flow slot holds.
WhileEnterAny ==
    /\ InSeq /\ CanNest
    /\ m' = Snap(m, WhileLoop_enter(m))
    /\ ret' = NoRet /\ op' = NoOp

\* The condition of a `while` holds a break, continue or return (in a block,
\* say): "condition.eval(vm, scopes)?" runs it after the take of the slot.
WhileCondFlow ==
    /\ Running /\ Top(m).kind = "while" /\ Top(m).st = "cond"
    /\ m.flow = None
    /\ \E kind \in FlowKinds :
          /\ m' = Flow_eval(m, kind, Span_of(m))
          /\ op' = [kind |-> kind, span |-> Span_of(m), before |-> m.flow,
                    value |-> Flow_value(kind)]
    /\ ret' = NoRet

\* The condition of a `while` whose body is entered MaxItems times at most.
WhileCondFew ==
    /\ Running /\ Top(m).kind = "while" /\ Top(m).st = "cond"
    /\ \E cond \in {"true", "false", "err"} :
          LET n == WhileLoop_cond(m, cond, FALSE, "code")
          IN  /\ cond = "true" => Top(m).runs < MaxItems
              /\ m' = IF Len(n.stack) > Len(m.stack) THEN Snap(m, n) ELSE n
              /\ ret' = IF Len(n.stack) < Len(m.stack)
                        THEN Returned(m, n, "ok") ELSE NoRet
    /\ op' = NoOp

\* The iterable of a `for` holds a break, continue or return:
\* "self.iter().eval(vm, scopes)?" runs it after the take of the slot.
ForIterFlow ==
    /\ Running /\ Top(m).kind = "for" /\ Top(m).st = "iter"
    /\ Top(m).runs = 0 /\ m.flow = None
    /\ \E kind \in FlowKinds :
          /\ m' = Flow_eval(m, kind, Span_of(m))
          /\ op' = [kind |-> kind, span |-> Span_of(m), before |-> m.flow,
                    value |-> Flow_value(kind)]
    /\ ret' = NoRet

Unwind ==
    /\ m.pc = "eval" /\ m.err # None /\ Top(m).kind \notin {"module", "call"}
    /\ m' = propagate(m)
    /\ ret' = Returned(m, m', "err")
    /\ op' = NoOp

Finish ==
    /\ m.pc = "eval" /\ Top(m).kind = "module" /\ Top(m).imports = "top"
    /\ m' = eval_finish(m)
    /\ ret' = NoRet /\ op' = NoOp

\* An import or include of a path: `resolved` is the file the path names,
\* `cyclic` says whether that file is on the route of the importing VM.
ImportFile ==
    /\ InSeq
    /\ \E target \in Files :
          LET n == import_file(m, target)
          IN  /\ m' = IF Len(n.stack) > Len(m.stack) THEN Snap(m, n) ELSE n
              /\ op' = [kind |-> "import", how |-> "file",
                        resolved |-> World_source(m.location, target),
                        cyclic |-> /\ World_source(m.location, target) # None
                                   /\ Route_contains(m.route, target)]
    /\ ret' = NoRet

\* An import or include of the package p.
ImportPackage ==
    /\ InSeq
    /\ LET n == import_package(m)
       IN  m' = IF Len(n.stack) > Len(m.stack) THEN Snap(m, n) ELSE n
    /\ op' = [kind |-> "import", how |-> "package",
              resolved |-> Some(Entrypoint),
              cyclic |-> Route_contains(m.route, Entrypoint)]
    /\ ret' = NoRet

\* The importing statement is an include or an import of one of the forms K.
ImportReturn(K) ==
    /\ m.pc = "eval" /\ Top(m).kind = "module" /\ Top(m).imports = "import"
    /\ \E imports \in K, idents \in SUBSET Names :
          /\ imports # "items" => idents = {}
          /\ m' = import_return(m, imports, idents)
    /\ ret' = NoRet /\ op' = NoOp

\* A statement is to begin in the sequence on top.
AtStatement == InSeq /\ Top(m).st = "head"

\* A `let` statement for one of the names N; the value bound tells the
\* file: 1 in main.typ, 2 in a.typ.
LetNamed(N) ==
    /\ AtStatement
    /\ \E var \in N :
          m' = LetBinding_eval(m, var, Span(m.location, 2), m.location)
    /\ ret' = NoRet /\ op' = NoOp

\* A code block as a statement of the file eval was called on.
EnterCode ==
    /\ AtStatement /\ Len(m.route) = 1 /\ Nesting(m.stack) < MaxBlocks
    /\ m' = Snap(m, seq_enter(m, "code", TRUE))
    /\ ret' = NoRet /\ op' = NoOp

\* An import statement whose path names one of the files T.
ImportOf(T) ==
    /\ AtStatement
    /\ \E target \in T :
          LET n == import_file(m, target)
          IN  m' = IF Len(n.stack) > Len(m.stack) THEN Snap(m, n) ELSE n
    /\ ret' = NoRet /\ op' = NoOp

\* The importing statement is an import of one of the forms K, an explicit
\* list being drawn from the names I: the scopes of the importing VM before
\* the import, the module and the errors pushed are kept for observation.
ImportApply(K, I) ==
    /\ m.pc = "eval" /\ Top(m).kind = "module" /\ Top(m).imports = "import"
    /\ \E imports \in K, idents \in SUBSET I :
          /\ imports # "items" => idents = {}
          /\ m' = import_return(m, imports, idents)
          /\ op' = [kind |-> "applied", imports |-> imports,
                    idents |-> idents, module |-> eval_result(m),
                    before |-> Top(m).caller.sc,
                    errors |-> IF eval_result(m).ok /\ imports = "items"
                               THEN [n \in Imports_unresolved(
                                               eval_result(m).scope, idents)
                                        |-> "unresolved import"]
                               ELSE <<>>]
    /\ ret' = NoRet

\* The args frames that wait in the stack.
Pending(stack) == Cardinality({j \in DOMAIN stack : stack[j].kind = "args"})

\* A function call in a statement or among the arguments of a call.
Call ==
    /\ Running /\ (IsSeq(Top(m)) \/ Top(m).kind = "args")
    /\ m.flow = None
    /\ Pending(m.stack) < MaxPending \/ FuncCall_depth_exceeded(m.depth)
    /\ \E form \in CallForms :
          LET n == FuncCall_enter(m, form)
          IN  /\ m' = IF Len(n.stack) > Len(m.stack) THEN Snap(m, n) ELSE n
              /\ op' = [kind |-> "call", form |-> form, depth |-> m.depth,
                        entered |-> Len(n.stack) > Len(m.stack)]
    /\ ret' = NoRet

\* The callee, the target or an argument fails.
ArgFail ==
    /\ Running /\ Top(m).kind = "args"
    /\ m' = fail(m, "type error")
    /\ ret' = NoRet /\ op' = NoOp

\* The callee and the arguments are there: the call itself.
Invoke ==
    /\ Running /\ Top(m).kind = "args"
    /\ \E how \in Dispatch(Top(m).form) :
          IF how = "closure"
          THEN /\ m' = Snap(m, Func_call_vm(m, Scope_new))
               /\ ret' = NoRet
          ELSE /\ \E ok \in BOOLEAN : m' = Native_call(m, ok)
               /\ ret' = [kind |-> "call", how |-> how,
                          found |-> Top(m).found, depth |-> m'.depth]
    /\ op' = NoOp

\* The body of a closure has returned, with or without an error.
CallReturn ==
    /\ m.pc = "eval" /\ Top(m).kind = "call"
    /\ m' = Func_call_return(m)
    /\ ret' = [kind |-> "call",
               how |-> IF m.err # None THEN "err"
                       ELSE IF m.flow # None THEN "flow" ELSE "ok",
               found |-> Top(m).found, depth |-> m'.depth,
               expect |-> Visible(Top(m).caller.sc),
               actual |-> Visible(m'.sc)]
    /\ op' = NoOp

\* "let f = (..) => body" where the body refers to the names in Refs, at
\* a place where f can be called.
ClosureDef ==
    /\ InSeq /\ m.depth < MaxCalls
    /\ \E pos \in Positions : m' = Closure_define(m, Span(m.location, pos))
    /\ ret' = NoRet /\ op' = NoOp

\* The call frame made last gets what the called closure saw when it was
\* made.
Made(mm, made) ==
    [mm EXCEPT !.stack[Len(mm.stack) - 1] =
        [f \in DOMAIN @ \cup {"made"} |-> IF f = "made" THEN made ELSE @[f]]]

\* "f()" where f is bound to a closure.
CallClosure ==
    /\ InSeq /\ m.flow = None /\ m.depth < MaxCalls
    /\ Scopes_get(m.sc, "f") # None
    /\ LET f == Scopes_get(m.sc, "f")[1]
           n == Closure_call(m, f)
       IN  m' = Made(Snap([m EXCEPT !.sc = [top |-> f.captured,
                                            scopes |-> <<>>]], n), f.made)
    /\ ret' = NoRet /\ op' = NoOp

BinaryEnter ==
    /\ Running /\ CanNest
    /\ IsSeq(Top(m)) \/ (Top(m).kind = "binary" /\ Top(m).st \in {"lhs", "rhs"})
    /\ \E bop \in BinOps : m' = Snap(m, Binary_enter(m, bop))
    /\ ret' = NoRet /\ op' = NoOp

BinaryOperand ==
    /\ Running /\ Top(m).kind = "binary" /\ Top(m).st \in {"lhs", "rhs"}
    /\ \E assign \in BOOLEAN, out \in Operands \cup {"err"} :
          m' = Operand_eval(m, assign, out)
    /\ ret' = NoRet /\ op' = NoOp

BinaryReturn ==
    /\ Running /\ Top(m).kind = "binary" /\ Top(m).st = "done"
    /\ m' = Binary_return(m)
    /\ ret' = NoRet
    /\ op' = [kind |-> "binary", bop |-> Top(m).bop, lhs |-> Top(m).lhs[1],
              runs |-> Top(m).runs, value |-> Top(m).value[1],
              after_lhs |-> Top(m).after_lhs[1], now |-> Visible(m.sc)]

\* The arrays of up to n integers.
Arrays(n) ==
    UNION {[1..k -> {Value_Int(v) : v \in Vals}] : k \in 0..n}

\* The patterns of up to n bindings.
Patterns(n) == UNION {[1..k -> Bindings] : k \in 0..n}

\* `let (..) = (..)` as the first binding of the file.
LetDestruct ==
    /\ InSeq /\ Top(m).st = "head" /\ DOMAIN m.sc.top = {}
    /\ \E value \in Arrays(MaxLen), bindings \in Patterns(MaxPat) :
          /\ m' = Pattern_define(m, value, bindings)
          /\ op' = [kind |-> "destruct", value |-> value,
                    bindings |-> bindings,
                    calls |-> destruct_array(value, bindings).calls,
                    err |-> m'.err]
    /\ ret' = NoRet

(***************************************************************************)
(* Two evaluations of one source side by side: m.a with a tracer whose     *)
(* span is position 1 of the file, m.b with a tracer without a span.  The   *)
(* two are given the same program: every step names one expression, and    *)
(* each of the two evaluations that has come to an expression takes it.    *)
(* `parsed` says whether the source has no syntax errors.                  *)
(***************************************************************************)
Traced_file == 1

InitPair ==
    /\ m = [parsed |-> TRUE, a |-> Machine_idle, b |-> Machine_idle]
    /\ ret = NoRet
    /\ op = NoOp

\* Both evaluations after the step F, taken by each where the guard G
\* lets it.
Both(G(_), F(_)) ==
    [m EXCEPT !.a = IF G(@) THEN F(@) ELSE @,
              !.b = IF G(@) THEN F(@) ELSE @]

Either(G(_)) == G(m.a) \/ G(m.b)

\* The source has room for one more expression at a traced position.
CanTrace == Len(m.a.seen) < MaxTraced

AtNest(mm) == InSeqOf(mm) /\ Nesting(mm.stack) < MaxNest

AtNext(mm) == InSeqOf(mm) /\ Top(mm).st = "mid" /\ mm.flow = None

AtBreak(mm) == InSeqOf(mm) /\ Top(mm).st = "mid" /\ mm.flow # None

AtEnd(mm) == InSeqOf(mm) /\ Top(mm).st = "head"

AtUnwind(mm) ==
    mm.pc = "eval" /\ mm.err # None /\ Top(mm).kind \notin {"module", "call"}

AtFinish(mm) ==
    mm.pc = "eval" /\ Top(mm).kind = "module" /\ Top(mm).imports = "top"

\* eval is called twice on the file, with and without a traced span.
PairBegin ==
    /\ m.a.pc = "idle" /\ m.b.pc = "idle"
    /\ \E parsed \in BOOLEAN :
          m' = [parsed |-> parsed,
                a |-> eval_enter([m.a EXCEPT !.tracer =
                                     Tracer_new(Some(Span(Traced_file, 1)))],
                                 "eval", Traced_file, "top", parsed),
                b |-> eval_enter(m.b, "eval", Traced_file, "top", parsed)]
    /\ ret' = NoRet /\ op' = NoOp

PairLet ==
    /\ Either(InSeqOf) /\ CanTrace
    /\ \E var \in Names, value \in Vals, pos \in Positions :
          m' = Both(InSeqOf, LAMBDA mm : LetBinding_eval(mm, var,
                                            Span(mm.location, pos), value))
    /\ ret' = NoRet /\ op' = NoOp

PairLiteral ==
    /\ Either(InSeqOf) /\ CanTrace
    /\ \E value \in Vals, pos \in Positions :
          m' = Both(InSeqOf, LAMBDA mm : Expr_eval(mm, Span(mm.location, pos),
                                                   value))
    /\ ret' = NoRet /\ op' = NoOp

PairAssign ==
    /\ Either(InSeqOf)
    /\ \E var \in Names \cup {"lib"}, value \in Vals :
          m' = Both(InSeqOf, LAMBDA mm : Binary_assign(mm, var, value))
    /\ ret' = NoRet /\ op' = NoOp

PairIdent ==
    /\ Either(InSeqOf)
    /\ \E var \in Names : m' = Both(InSeqOf, LAMBDA mm : Ident_eval(mm, var))
    /\ ret' = NoRet /\ op' = NoOp

\* A break or a return.
PairFlow ==
    /\ Either(InSeqOf)
    /\ \E kind \in {"Break", "Return"} :
          m' = Both(InSeqOf, LAMBDA mm : Flow_eval(mm, kind, Span_of(mm)))
    /\ ret' = NoRet /\ op' = NoOp

PairFail ==
    /\ Either(InSeqOf)
    /\ m' = Both(InSeqOf, LAMBDA mm : fail(mm, "type error"))
    /\ ret' = NoRet /\ op' = NoOp

PairBlock ==
    /\ Either(AtNest)
    /\ m' = Both(AtNest, LAMBDA mm : seq_enter(mm, "code", TRUE))
    /\ ret' = NoRet /\ op' = NoOp

PairSeqNext ==
    /\ Either(AtNext)
    /\ m' = Both(AtNext, seq_next)
    /\ ret' = NoRet /\ op' = NoOp

PairSeqBreak ==
    /\ Either(AtBreak)
    /\ m' = Both(AtBreak, seq_exit)
    /\ ret' = NoRet /\ op' = NoOp

PairSeqEnd ==
    /\ Either(AtEnd)
    /\ m' = Both(AtEnd, seq_exit)
    /\ ret' = NoRet /\ op' = NoOp

PairUnwind ==
    /\ Either(AtUnwind)
    /\ m' = Both(AtUnwind, propagate)
    /\ ret' = NoRet /\ op' = NoOp

PairFinish ==
    /\ Either(AtFinish)
    /\ m' = Both(AtFinish, eval_finish)
    /\ ret' = NoRet /\ op' = NoOp

(***************************************************************************)
(* Two calls of eval / eval_string in parallel.  What a call keeps in its  *)
(* frames (where it is, its error, its result) is m.ctl of the call; the   *)
(* VM, the scopes and the tracer that eval builds in its local variables   *)
(* are an instance in m.vm.  The world is read only; LANG_ITEMS is the one *)
(* global eval writes (set_lang_items is in library.rs, which is not part  *)
(* of the sources at hand: the items of a world are a frozen record).      *)
(* m.solo is an observation: every call run alone, on the same program.    *)
(***************************************************************************)
Calls == {1, 2}

CtlFields == {"pc", "entry", "stack", "err", "result"}

DataFields == DOMAIN Machine_idle \ CtlFields

\* One instance for every call, whoever calls.
Vm_instance_static(call) == 1

\* "let mut scopes = Scopes::new(..); let mut vm = Vm::new(..)": the
\* instance that the locals of the call make up.
Vm_instance(call) == call

Library_items == "std"

\* set_lang_items(library.items.clone()).
set_lang_items(lang, items) == IF lang = None THEN Some(items) ELSE lang

\* The evaluator as the call t has it before it.
View(t) ==
    [f \in DOMAIN Machine_idle |->
        IF f \in CtlFields THEN m.ctl[t][f] ELSE m.vm[Vm_instance(t)][f]]

\* The calls after the call t has taken the step F (a step the guard G
\* allows).
Stepped(t, G(_), F(_)) ==
    LET w == F(View(t))
    IN  [m EXCEPT !.ctl[t] = [f \in CtlFields |-> w[f]],
                  !.vm[Vm_instance(t)] = [f \in DataFields |-> w[f]],
                  !.solo[t] = IF G(@) THEN F(@) ELSE @]

InitPar ==
    /\ m = [lang |-> None,
            ctl |-> [t \in Calls |-> [f \in CtlFields |-> Machine_idle[f]]],
            vm |-> [i \in Calls |-> [f \in DataFields |-> Machine_idle[f]]],
            solo |-> [t \in Calls |-> Machine_idle]]
    /\ ret = NoRet
    /\ op = NoOp

Idle(mm) == mm.pc = "idle"

AtBlock(mm) == InSeqOf(mm) /\ Nesting(mm.stack) < MaxBlocks

\* A call of eval on main.typ or of eval_string begins.
ParBegin ==
    /\ \E t \in Calls, entry \in {"eval", "eval_string"} :
          /\ Idle(View(t))
          /\ m' = [Stepped(t, Idle,
                           LAMBDA mm : eval_enter(mm, entry,
                                          IF entry = "eval" THEN 1
                                          ELSE Detached, "top", TRUE))
                      EXCEPT !.lang = set_lang_items(@, Library_items)]
    /\ ret' = NoRet /\ op' = NoOp

\* The value bound tells the call.
ParLet ==
    /\ \E t \in Calls, var \in Names :
          /\ InSeqOf(View(t))
          /\ m' = Stepped(t, InSeqOf,
                          LAMBDA mm : LetBinding_eval(mm, var,
                                         Span(mm.location, 2), t))
    /\ ret' = NoRet /\ op' = NoOp

ParFlow ==
    /\ \E t \in Calls, kind \in {"Break"} :
          /\ InSeqOf(View(t))
          /\ m' = Stepped(t, InSeqOf,
                          LAMBDA mm : Flow_eval(mm, kind, Span_of(mm)))
    /\ ret' = NoRet /\ op' = NoOp

ParFail ==
    /\ \E t \in Calls :
          /\ InSeqOf(View(t))
          /\ m' = Stepped(t, InSeqOf, LAMBDA mm : fail(mm, "type error"))
    /\ ret' = NoRet /\ op' = NoOp

ParBlock ==
    /\ \E t \in Calls :
          /\ AtBlock(View(t))
          /\ m' = Stepped(t, AtBlock, LAMBDA mm : seq_enter(mm, "code", TRUE))
    /\ ret' = NoRet /\ op' = NoOp

ParSeqNext ==
    /\ \E t \in Calls :
          AtNext(View(t)) /\ m' = Stepped(t, AtNext, seq_next)
    /\ ret' = NoRet /\ op' = NoOp

ParSeqBreak ==
    /\ \E t \in Calls :
          AtBreak(View(t)) /\ m' = Stepped(t, AtBreak, seq_exit)
    /\ ret' = NoRet /\ op' = NoOp

ParSeqEnd ==
    /\ \E t \in Calls :
          AtEnd(View(t)) /\ m' = Stepped(t, AtEnd, seq_exit)
    /\ ret' = NoRet /\ op' = NoOp

ParUnwind ==
    /\ \E t \in Calls :
          AtUnwind(View(t)) /\ m' = Stepped(t, AtUnwind, propagate)
    /\ ret' = NoRet /\ op' = NoOp

ParFinish ==
    /\ \E t \in Calls :
          AtFinish(View(t)) /\ m' = Stepped(t, AtFinish, eval_finish)
    /\ ret' = NoRet /\ op' = NoOp

(***************************************************************************)
(* The result of a sequence.  eval_markup and eval_code draw expressions   *)
(* from the iterator `exprs`; a set or show rule hands the same iterator   *)
(* to a nested call for the tail.  Here m is the state of one such         *)
(* evaluation: `i` expressions have been drawn, `done` says the iterator   *)
(* has returned None, `stack` holds a frame per call of eval_markup /      *)
(* eval_code (`saved` is the local `flow`, `seq` the local `seq` or        *)
(* `output`, `rule` the rule whose tail the call evaluates), `log` lists   *)
(* the expressions evaluated and whether an event was pending after each.  *)
(* Content is a sequence of nodes: the displayed value of the expression   *)
(* at `pos`, or the body styled by the rule at `pos`.  Content, display    *)
(* and ops::join are outside the sources at hand.                          *)
(***************************************************************************)
Values == {"text", "space", "label"}

Rules == {"set", "show"}

Elem(value, pos) == [kind |-> value, pos |-> pos, label |-> 0, body |-> <<>>]

\* tail.styled_with_map(styles), tail.styled_with_recipe(vm, recipe).
Styled(kind, pos, tail) ==
    [kind |-> kind, pos |-> pos, label |-> 0, body |-> tail]

\* node.can::<dyn Unlabellable>(): spaces and the like take no label.
Unlabellable(node) == node.kind = "space"

\* The arm of Value::Label: the last labellable element of `seq` gets the
\* label, and nothing is pushed.
Labelled(seq, label) ==
    LET J == {j \in DOMAIN seq : ~Unlabellable(seq[j])}
    IN  IF J = {} THEN seq ELSE [seq EXCEPT ![Max(J)].label = label]

\* ops::join on the displayed values: the joined value holds both.
ops_join(output, value) == output \o value

\* What the loop does with the value of an expression at `pos`.
Seq_push(mode, seq, value, pos) ==
    IF mode = "markup"
    THEN IF value = "label" THEN Labelled(seq, pos)
         ELSE Append(seq, Elem(value, pos))
    ELSE ops_join(seq, <<Elem(value, pos)>>)

\* The styled tail put before what the sequence had produced.
Tail_push_over(mode, seq, kind, pos, tail) == <<Styled(kind, pos, seq \o tail)>>

\* "seq.push(tail.styled_with_map(styles))" and, in code, the join of the
\* styled tail into `output`.
Tail_push(mode, seq, kind, pos, tail) ==
    IF mode = "markup" THEN Append(seq, Styled(kind, pos, tail))
    ELSE ops_join(seq, <<Styled(kind, pos, tail)>>)

StreamFrame(saved, rule) ==
    [kind |-> "stream", saved |-> saved, seq |-> <<>>, rule |-> rule]

Stream_idle ==
    [pc |-> "idle", mode |-> "markup", i |-> 0, done |-> FALSE,
     flow |-> None, err |-> None, stack |-> <<>>, result |-> <<>>,
     log |-> <<>>]

\* The check after a rule that never leaves the loop.
Rule_breaks_never(flow) == FALSE

\* "if vm.flow.is_some() { break; }" after set.eval / show.eval.
Rule_breaks(flow) == flow # None

\* "if vm.flow.is_some() { break; }" at the end of a turn of the loop.
Stream_breaks(flow) == flow # None

\* The head of eval_markup / eval_code: "let flow = vm.flow.take()".
Stream_enter(mm, rule) ==
    [mm EXCEPT !.flow = None, !.pc = "loop",
               !.stack = Append(@, StreamFrame(mm.flow, rule))]

\* The evaluation of the expression at `pos`, which raises an event of the
\* kind `raised` unless that is "none".
Stream_eval(mm, kind, raised, pos) ==
    LET ev == IF raised = "none" THEN mm
              ELSE Flow_eval(mm, raised, Span(1, pos))
    IN  [ev EXCEPT !.i = pos,
                   !.log = Append(@, [pos |-> pos, kind |-> kind,
                                      pending |-> ev.flow # None])]

\* A turn of the loop on an expression that is no rule.
Stream_expr(mm, value, raised) ==
    LET ev == Stream_eval(mm, value, raised, mm.i + 1)
    IN  [ev EXCEPT !.stack[Len(mm.stack)].seq =
                       Seq_push(mm.mode, @, value, mm.i + 1),
                   !.pc = IF Stream_breaks(ev.flow) THEN "exit" ELSE "loop"]

\* A turn of the loop on a set or show rule, up to the call for the tail.
Stream_rule(mm, kind, raised) ==
    LET ev == Stream_eval(mm, kind, raised, mm.i + 1)
    IN  IF Rule_breaks(ev.flow) THEN [ev EXCEPT !.pc = "exit"]
        ELSE Stream_enter(ev, Some([kind |-> kind, pos |-> mm.i + 1]))

\* exprs.next() is None.
Stream_none(mm) == [mm EXCEPT !.done = TRUE, !.pc = "exit"]

\* The end of eval_markup / eval_code.  The outermost call returns the
\* result; the call for a tail returns into the turn of the loop that made
\* it, where the tail is styled (`ok` says that styled_with_recipe and the
\* join succeed) and pushed, and the loop left if an event is pending.
Stream_return(mm, ok) ==
    LET f == Top(mm)
        n == Len(mm.stack)
        flow == IF f.saved # None THEN f.saved ELSE mm.flow
    IN  IF f.rule = None
        THEN [mm EXCEPT !.flow = flow, !.stack = Pop(@), !.pc = "done",
                        !.result = f.seq]
        ELSE IF ~ok
        THEN [mm EXCEPT !.flow = flow, !.stack = Pop(@), !.pc = "err",
                        !.err = Some("show rule or join failed")]
        ELSE [mm EXCEPT !.flow = flow,
                        !.stack = [Pop(@) EXCEPT ![n - 1].seq =
                                      Tail_push(mm.mode, @, f.rule[1].kind,
                                                f.rule[1].pos, f.seq)],
                        !.pc = IF Stream_breaks(flow) THEN "exit" ELSE "loop"]

InitSeq ==
    /\ m = Stream_idle
    /\ ret = NoRet
    /\ op = NoOp

\* eval_markup or eval_code is called on a sequence, with or without an
\* event pending.
StreamBegin ==
    /\ m.pc = "idle"
    /\ \E mode \in {"markup", "code"},
          pending \in {None, Some(FlowEvent("Return", Span(1, 0)))} :
          m' = Stream_enter([m EXCEPT !.mode = mode, !.flow = pending], None)
    /\ UNCHANGED <<ret, op>>

AtLoop == m.pc = "loop" /\ ~m.done /\ m.i < MaxExprs

StreamExpr ==
    /\ AtLoop
    /\ \E value \in Values, raised \in {"none", "Break"} :
          m' = Stream_expr(m, value, raised)
    /\ UNCHANGED <<ret, op>>

StreamRule ==
    /\ AtLoop
    /\ \E kind \in Rules, raised \in {"none", "Break"} :
          m' = Stream_rule(m, kind, raised)
    /\ UNCHANGED <<ret, op>>

\* The evaluation of the next expression fails: `?` returns the error from
\* every call.
StreamFail ==
    /\ AtLoop
    /\ m' = [m EXCEPT !.i = @ + 1, !.pc = "err", !.stack = <<>>,
                      !.err = Some("type error")]
    /\ UNCHANGED <<ret, op>>

StreamNone ==
    /\ m.pc = "loop"
    /\ m' = Stream_none(m)
    /\ UNCHANGED <<ret, op>>

StreamReturn ==
    /\ m.pc = "exit"
    /\ \E ok \in BOOLEAN :
          /\ ~ok => Top(m).rule # None
                    /\ (Top(m).rule[1].kind = "show" \/ m.mode = "code")
          /\ m' = Stream_return(m, ok)
    /\ UNCHANGED <<ret, op>>

(***************************************************************************)
(* The scope stack by itself.  m holds a Scopes value `sc` and the error   *)
(* of the last call; the calls are those of scope.rs (enter, exit, define  *)
(* and define_captured on the top scope) and a write to a name through     *)
(* get_maybe_mut, as Binary::assign makes it.  `op` keeps the stack before *)
(* the write and what get and get_maybe_mut gave for the name on it.       *)
(***************************************************************************)
SlotNames == {"x", "lib"}

SlotVals == {1, 2}

Slots_idle == [sc |-> Scopes_new, err |-> None, stack |-> <<>>, out |-> None]

InitSlots ==
    /\ m = Slots_idle
    /\ ret = NoRet
    /\ op = NoOp

SlotsEnter ==
    /\ Len(m.sc.scopes) < MaxScopes
    /\ m' = [m EXCEPT !.sc = Scopes_enter(@), !.err = None]
    /\ op' = NoOp /\ UNCHANGED ret

SlotsExit ==
    /\ Len(m.sc.scopes) > 0
    /\ m' = [m EXCEPT !.sc = Scopes_exit(@), !.err = None]
    /\ op' = NoOp /\ UNCHANGED ret

SlotsDefine ==
    /\ \E var \in SlotNames, value \in SlotVals :
          m' = [m EXCEPT !.sc.top = Scope_define(@, var, value), !.err = None]
    /\ op' = NoOp /\ UNCHANGED ret

SlotsDefineCaptured ==
    /\ \E var \in SlotNames, value \in SlotVals :
          m' = [m EXCEPT !.sc.top = Scope_define_captured(@, var, value),
                         !.err = None]
    /\ op' = NoOp /\ UNCHANGED ret

\* "var = value" for a name that may be bound or not.
SlotsWrite ==
    /\ \E var \in SlotNames \cup {"q"}, value \in SlotVals :
          /\ m' = Binary_assign([m EXCEPT !.err = None], var, value)
          /\ op' = [kind |-> "write", var |-> var, value |-> value,
                    before |-> m.sc, got |-> Scopes_get(m.sc, var),
                    loc |-> Scopes_get_maybe_mut(m.sc, var)]
    /\ UNCHANGED ret

(***************************************************************************)
(* Places: Expr::eval_maybe_mut and the assignments.  A value is None, an  *)
(* integer or a dictionary (a sequence of pairs in the order of insertion; *)
(* Value, Dict and methods::call are outside the sources at hand).  An     *)
(* expression is a record: an identifier, a parenthesized expression, a    *)
(* field access, a method call (`at`, which gives a reference into its     *)
(* target, or `len`, which gives a number) or a literal, which stands for  *)
(* every other shape.  A location is the scope level and the name of a     *)
(* binding and the path of keys into its value.                            *)
(***************************************************************************)
V_None == [type |-> "none", int |-> 0, dict |-> <<>>]

V_Int(k) == [type |-> "int", int |-> k, dict |-> <<>>]

V_Dict(pairs) == [type |-> "dict", int |-> 0, dict |-> pairs]

Keys == {"a", "b"}

Dict_keys(d) == {d[i].key : i \in DOMAIN d}

Dict_get(d, k) == d[CHOOSE i \in DOMAIN d : d[i].key = k].value

\* Dict::insert: the value of an existing key is replaced where it stands,
\* a new key goes to the end.
Dict_insert(d, k, v) ==
    IF k \in Dict_keys(d)
    THEN [i \in DOMAIN d |-> IF d[i].key = k THEN [key |-> k, value |-> v]
                                              ELSE d[i]]
    ELSE Append(d, [key |-> k, value |-> v])

E_Ident(var) == [shape |-> "ident", var |-> var, field |-> "", inner |-> <<>>]

E_Lit == [shape |-> "lit", var |-> "", field |-> "", inner |-> <<>>]

E_Paren(e) == [shape |-> "paren", var |-> "", field |-> "", inner |-> <<e>>]

E_Field(e, k) == [shape |-> "field", var |-> "", field |-> k, inner |-> <<e>>]

E_Call(e, method, k) ==
    [shape |-> "call", var |-> method, field |-> k, inner |-> <<e>>]

\* The value of the literal that stands for the other shapes.
Lit_value == V_Int(0)

Place(level, var, path) ==
    [tag |-> "Mut", level |-> level, var |-> var, path |-> path]

MaybeMut_temp(value) == MaybeMut_Im(value, "Temporary")

\* The value a location holds.
Place_read(sc, loc) ==
    LET v == Scopes_level(sc, loc.level)[loc.var].value
    IN  IF loc.path = <<>> THEN v ELSE Dict_get(v.dict, loc.path[1])

\* "*location = value".
Place_store(sc, loc, value) ==
    IF loc.path = <<>> THEN Scopes_store(sc, loc.level, loc.var, value)
    ELSE Scopes_store(sc, loc.level, loc.var,
             V_Dict(Dict_insert(Scopes_level(sc, loc.level)[loc.var].value.dict,
                                loc.path[1], value)))

\* The value of a MaybeMut that is no error.
MaybeMut_value(sc, r) == IF r.tag = "Mut" THEN Place_read(sc, r) ELSE r.value

\* Ident::eval_maybe_mut: scopes.get_maybe_mut; the bindings of the library
\* are integers.
Ident_eval_maybe_mut(sc, var) ==
    LET r == Scopes_get_maybe_mut(sc, var)
    IN  CASE r.tag = "Mut" -> Place(r.level, var, <<>>)
          [] r.tag = "Im" /\ r.reason = "Const" ->
               MaybeMut_Im(V_Int(r.value), "Const")
          [] OTHER -> r

\* Value::field: the fields of a dictionary are its keys; None and the
\* integers have no fields.
Value_field(value, k) ==
    IF value.type = "dict" /\ k \in Dict_keys(value.dict)
    THEN MaybeMut_temp(Dict_get(value.dict, k))
    ELSE IF value.type = "dict"
    THEN MaybeMut_Err("dictionary does not contain key")
    ELSE MaybeMut_Err("cannot access fields on this type")

\* Dict::at_mut without a default.
Dict_at_mut(sc, loc, k) ==
    IF k \in Dict_keys(Place_read(sc, loc).dict)
    THEN Place(loc.level, loc.var, Append(loc.path, k))
    ELSE MaybeMut_Err("dictionary does not contain key")

\* FieldAccess::eval_maybe_mut that gives a copy of the field whatever the
\* target is.
FieldAccess_eval_maybe_mut_copy(sc, target, k) ==
    IF target.tag = "Err" THEN target
    ELSE Value_field(MaybeMut_value(sc, target), k)

\* FieldAccess::eval_maybe_mut, `target` being what the target gave.
FieldAccess_eval_maybe_mut(sc, target, k) ==
    IF target.tag = "Err" THEN target
    ELSE IF target.tag = "Mut" /\ Place_read(sc, target).type = "dict"
    THEN Dict_at_mut(sc, target, k)
    ELSE Value_field(MaybeMut_value(sc, target), k)

\* methods::call on a target: `at` on the dictionary of a location gives
\* the location of the entry, on another dictionary a copy of the entry;
\* `len` gives a number.
methods_call(sc, target, method, k) ==
    IF target.tag = "Err" THEN target
    ELSE LET v == MaybeMut_value(sc, target)
         IN  IF v.type # "dict" THEN MaybeMut_Err("type has no such method")
             ELSE IF method = "len" THEN MaybeMut_temp(V_Int(Len(v.dict)))
             ELSE IF target.tag = "Mut" THEN Dict_at_mut(sc, target, k)
             ELSE Value_field(v, k)

\* Expr::eval_maybe_mut.
RECURSIVE Expr_eval_maybe_mut(_, _)
Expr_eval_maybe_mut(sc, e) ==
    CASE e.shape = "ident" -> Ident_eval_maybe_mut(sc, e.var)
      [] e.shape = "paren" -> Expr_eval_maybe_mut(sc, e.inner[1])
      [] e.shape = "field" ->
           FieldAccess_eval_maybe_mut(sc, Expr_eval_maybe_mut(sc, e.inner[1]),
                                      e.field)
      [] e.shape = "call" ->
           methods_call(sc, Expr_eval_maybe_mut(sc, e.inner[1]), e.var,
                        e.field)
      [] OTHER -> MaybeMut_temp(Lit_value)

\* "eval_maybe_mut(..)?.mutate()?" and the store that `put` describes: the
\* value to store, or "take" for a compound operator that fails after
\* "mem::take(&mut *location)".
Place_assign(mm, e, put) ==
    LET loc == Expr_eval_maybe_mut(mm.sc, e)
    IN  CASE loc.tag = "Err" -> fail(mm, loc.msg)
          [] loc.tag = "Im" -> fail(mm, MaybeMut_mutate_error(loc.reason))
          [] OTHER ->
               IF put.ok
               THEN [mm EXCEPT !.sc = Place_store(@, loc, put.value),
                               !.out = Some(V_None)]
               ELSE fail([mm EXCEPT !.sc = Place_store(@, loc, V_None)],
                         "cannot apply the operator")

\* Binary::assign without the case of the field of a dictionary.
Place_assign_field_plain(mm, bop, e, rhs, ok) ==
    Place_assign(mm, e, [ok |-> bop = "=" \/ ok, value |-> rhs])

\* Binary::assign: `bop` is "=" or a compound operator, whose application
\* gives rhs or, when `ok` is false, fails.
Place_assign_field(mm, bop, e, rhs, ok) ==
    IF bop = "=" /\ e.shape = "field"
    THEN LET loc == Expr_eval_maybe_mut(mm.sc, e.inner[1])
         IN  CASE loc.tag = "Err" -> fail(mm, loc.msg)
               [] loc.tag = "Im" -> fail(mm, MaybeMut_mutate_error(loc.reason))
               [] OTHER ->
                    IF Place_read(mm.sc, loc).type # "dict"
                    THEN fail(mm, "expected dictionary")
                    ELSE [mm EXCEPT !.sc = Place_store(@, loc,
                             V_Dict(Dict_insert(Place_read(mm.sc, loc).dict,
                                                e.field, rhs))),
                                    !.out = Some(V_None)]
    ELSE Place_assign(mm, e, [ok |-> bop = "=" \/ ok, value |-> rhs])

\* Pattern::assign on a destructuring of Normal bindings against an array
\* of as many values: the targets are assigned in the order of the pattern.
RECURSIVE Pattern_assign(_, _, _)
Pattern_assign(mm, targets, values) ==
    IF targets = <<>> \/ mm.err # None THEN mm
    ELSE Pattern_assign(Place_assign(mm, Head(targets),
                                     [ok |-> TRUE, value |-> Head(values)]),
                        Tail(targets), Tail(values))

\* The targets: the atoms, and what one or two steps make of them.
Atoms == {E_Ident(v) : v \in {"d", "c", "lib", "q"}} \cup {E_Lit}

Wrap(E) ==
    {E_Paren(e) : e \in E} \cup {E_Field(e, k) : e \in E, k \in Keys}
        \cup {E_Call(e, f, "a") : e \in E, f \in {"at", "len"}}

Targets ==
    Atoms \cup Wrap(Atoms)
        \cup Wrap({E_Paren(E_Ident("d")), E_Field(E_Ident("d"), "a")})

\* The values the bindings are given.
PlaceVals ==
    {V_Int(1), V_Dict(<<>>), V_Dict(<<[key |-> "a", value |-> V_Int(1)]>>),
     V_Dict(<<[key |-> "a", value |-> V_Int(1)],
              [key |-> "b", value |-> V_Int(1)]>>)}

\* "let d = value": a binding of the only scope.
PlaceLet ==
    /\ \E value \in PlaceVals :
          m' = [m EXCEPT !.sc.top = Scope_define(@, "d", value), !.err = None]
    /\ op' = NoOp /\ UNCHANGED ret

\* The scope of a closure holds a captured c.
PlaceCapture ==
    /\ "c" \notin DOMAIN m.sc.top
    /\ \E value \in PlaceVals :
          m' = [m EXCEPT !.sc.top = Scope_define_captured(@, "c", value),
                         !.err = None]
    /\ op' = NoOp /\ UNCHANGED ret

\* "target = 2", "target += .." whose operator gives 2 or fails.
PlaceAssign ==
    /\ \E e \in Targets, bop \in {"=", "+="}, ok \in BOOLEAN :
          /\ bop = "=" => ok
          /\ m' = Place_assign_field([m EXCEPT !.err = None, !.out = None],
                                     bop, e,
                                     V_Int(2), ok)
          /\ op' = [kind |-> "assign", bop |-> bop, targets |-> <<e>>,
                    ok |-> ok, before |-> m.sc,
                    locs |-> <<Expr_eval_maybe_mut(m.sc, e)>>]
    /\ UNCHANGED ret

\* "(t1, t2) = (2, 2)".
PlaceDestruct ==
    /\ \E e \in Atoms \cup {E_Field(E_Ident(v), "a") : v \in {"d", "c"}},
          f \in {E_Ident("d"), E_Lit, E_Paren(E_Lit)} :
          /\ m' = Pattern_assign([m EXCEPT !.err = None, !.out = None],
                                 <<e, f>>,
                                 <<V_Int(2), V_Int(2)>>)
          /\ op' = [kind |-> "assign", bop |-> "destruct",
                    targets |-> <<e, f>>, ok |-> TRUE, before |-> m.sc,
                    locs |-> <<Expr_eval_maybe_mut(m.sc, e),
                               Expr_eval_maybe_mut(
                                   Place_assign(m, e, [ok |-> TRUE,
                                       value |-> V_Int(2)]).sc, f)>>]
    /\ UNCHANGED ret

(***************************************************************************)
(* The syntax of a `while` loop.  A node has a kind and children; a field  *)
(* access has its target and the identifier of the field as children, a    *)
(* call its callee and its arguments.                                      *)
(***************************************************************************)
Node(kind, kids) == [kind |-> kind, kids |-> kids]

Leaf(kind) == Node(kind, <<>>)

\* is_invariant that looks at every child of every node.
RECURSIVE is_invariant_all(_)
is_invariant_all(expr) ==
    /\ expr.kind \notin {"Ident", "MathIdent"}
    /\ \A i \in DOMAIN expr.kids : is_invariant_all(expr.kids[i])

RECURSIVE is_invariant(_)
is_invariant(expr) ==
    CASE expr.kind \in {"Ident", "MathIdent"} -> FALSE
      [] expr.kind = "FieldAccess" -> is_invariant(expr.kids[1])
      [] expr.kind = "FuncCall" ->
           is_invariant(expr.kids[1]) /\ is_invariant(expr.kids[2])
      [] OTHER -> \A i \in DOMAIN expr.kids : is_invariant(expr.kids[i])

RECURSIVE can_diverge(_)
can_diverge(expr) ==
    \/ expr.kind \in {"Break", "Return"}
    \/ \E i \in DOMAIN expr.kids : can_diverge(expr.kids[i])

\* The kinds of the nodes of a tree.
RECURSIVE Kinds_in(_)
Kinds_in(expr) ==
    {expr.kind} \cup UNION {Kinds_in(expr.kids[i]) : i \in DOMAIN expr.kids}

\* Conditions: true, x, a math identifier in an equation, (true),
\* true and x, "a".len, x.len, "a".len(), x(true), "a".at(x).
Conditions ==
    LET lit == Leaf("Bool")
        x == Leaf("Ident")
        len == Node("FieldAccess", <<Leaf("Str"), Leaf("Ident")>>)
    IN  {lit, x, Node("Equation", <<Leaf("MathIdent")>>),
         Node("Parenthesized", <<lit>>), Node("Binary", <<lit, x>>),
         len, Node("FieldAccess", <<x, Leaf("Ident")>>),
         Node("FuncCall", <<len, Leaf("Args")>>),
         Node("FuncCall", <<x, Node("Args", <<lit>>)>>),
         Node("FuncCall", <<len, Node("Args", <<x>>)>>)}

\* Bodies: {}, { 1 }, { continue }, { break }, { return },
\* { if c { break } }, { continue; 1 }.
Bodies ==
    {Leaf("CodeBlock"), Node("CodeBlock", <<Leaf("Int")>>),
     Node("CodeBlock", <<Leaf("Continue")>>),
     Node("CodeBlock", <<Leaf("Break")>>),
     Node("CodeBlock", <<Leaf("Return")>>),
     Node("CodeBlock", <<Node("Conditional",
                             <<Leaf("Ident"),
                               Node("CodeBlock", <<Leaf("Break")>>)>>)>>),
     Node("CodeBlock", <<Leaf("Continue"), Leaf("Int")>>)}

\* WhileLoop::eval up to the loop, for a loop of the given syntax.
WhileLoop_enter_of(mm, condition, body) ==
    [mm EXCEPT !.flow = None,
               !.stack = Append(Mid(@),
                   [f \in DOMAIN WhileFrame(None, 0) \cup {"condition", "body"} |->
                       CASE f = "condition" -> condition
                         [] f = "body" -> body
                         [] OTHER -> WhileFrame(mm.flow, Len(mm.sc.scopes))[f]])]

\* A `while` loop of some syntax is met.
WhileEnterOf ==
    /\ InSeq /\ Outermost /\ m.flow = None
    /\ \E condition \in Conditions, body \in Bodies :
          m' = Snap(m, WhileLoop_enter_of(m, condition, body))
    /\ ret' = NoRet /\ op' = NoOp

\* The condition of the loop is evaluated: an invariant condition has the
\* value it had before; the body is entered MaxItems times at most.
WhileCondOf ==
    /\ Running /\ Top(m).kind = "while" /\ Top(m).st = "cond"
    /\ \E cond \in {"true", "false"} :
          LET n == WhileLoop_cond(m, cond,
                       is_invariant(Top(m).condition)
                           /\ ~can_diverge(Top(m).body), "code")
          IN  /\ cond = "true" => Top(m).runs < MaxItems
              /\ is_invariant(Top(m).condition) /\ Top(m).i > 0
                     => cond = "true"
              /\ m' = IF Len(n.stack) > Len(m.stack) THEN Snap(m, n) ELSE n
              /\ ret' = IF Len(n.stack) < Len(m.stack)
                        THEN Returned(m, n, "ok") ELSE NoRet
              /\ op' = [kind |-> "check", cond |-> cond, i |-> Top(m).i,
                        condition |-> Top(m).condition, body |-> Top(m).body,
                        runs |-> Top(m).runs, depth |-> Len(m.stack)]

\* A break, continue or return of the body of the loop.
WhileBodyFlow ==
    /\ InSeq /\ m.flow = None /\ Len(m.stack) > 1
    /\ m.stack[Len(m.stack) - 1].kind = "while"
    /\ \E kind \in FlowKinds \cap Kinds_in(m.stack[Len(m.stack) - 1].body) :
          m' = Flow_eval(m, kind, Span_of(m))
    /\ ret' = NoRet /\ op' = NoOp

(***************************************************************************)
(* The dispatch of a call: FuncCall::eval_maybe_mut from the callee to the *)
(* call.  The state is where the evaluation stands (`pc`), the syntax of   *)
(* the callee, the value of the target once it is evaluated (its type and  *)
(* whether it has a field of the name), the log of what was evaluated and  *)
(* the route taken.  methods_on and methods::call are outside the sources  *)
(* at hand.                                                                *)
(***************************************************************************)
TargetTypes ==
    {"dictionary", "array", "string", "symbol", "module", "function"}

\* The names after the dot.
MethodNames == {"with", "where", "at", "x"}

\* methods_on: nothing for a symbol and a module, `with` and `where` for a
\* function, `at` among others for dictionaries and strings.
methods_on(type) ==
    CASE type \in {"symbol", "module"} -> {}
      [] type = "function" -> {"with", "where"}
      [] OTHER -> {"at"}

Call_idle ==
    [pc |-> "idle", callee |-> "none", name |-> "", type |-> "none",
     has |-> FALSE, log |-> <<>>, route |-> "none", err |-> None]

\* The test that sends the call to methods::call, with the fields of a
\* function ahead of its methods.
FuncCall_is_method_fields_first(type, name, has) ==
    \/ type \notin {"symbol", "module", "function"}
    \/ name \in methods_on(type) /\ ~has

\* "!matches!(*target, Symbol | Module | Func) || methods_on(..).any(..)".
FuncCall_is_method(type, name, has) ==
    \/ type \notin {"symbol", "module", "function"}
    \/ name \in methods_on(type)

\* The callee is looked at: a field access has the arguments evaluated
\* next, any other callee is evaluated itself.
FuncCall_begin(callee, name) ==
    [Call_idle EXCEPT !.pc = IF callee = "field" THEN "args" ELSE "callee",
                      !.callee = callee, !.name = name]

\* "args.eval(vm, scopes)?".
FuncCall_args(c, ok) ==
    IF ~ok THEN [c EXCEPT !.pc = "done", !.log = Append(@, "args"),
                          !.err = Some("type error")]
    ELSE [c EXCEPT !.log = Append(@, "args"),
                   !.pc = IF c.callee = "field" THEN "target" ELSE "call",
                   !.route = IF c.callee = "field" THEN @ ELSE "plain"]

\* "callee.eval(vm, scopes)?" of a callee that is no field access.
FuncCall_callee(c, ok) ==
    IF ~ok THEN [c EXCEPT !.pc = "done", !.log = Append(@, "callee"),
                          !.err = Some("type error")]
    ELSE [c EXCEPT !.log = Append(@, "callee"), !.pc = "args"]

\* "target.eval_maybe_mut(vm, scopes)?" and the choice that follows: the
\* method, or the field of the target, which may not be there.
FuncCall_target(c, ok, type, has) ==
    IF ~ok THEN [c EXCEPT !.pc = "done", !.log = Append(@, "target"),
                          !.err = Some("type error")]
    ELSE LET t == [c EXCEPT !.log = Append(@, "target"), !.type = type,
                            !.has = has]
         IN  IF FuncCall_is_method(type, c.name, has)
             THEN [t EXCEPT !.pc = "method", !.route = "method"]
             ELSE IF has
             THEN [t EXCEPT !.pc = "call", !.route = "field",
                            !.log = Append(@, "field")]
             ELSE [t EXCEPT !.pc = "done", !.log = Append(@, "field"),
                            !.err = Some("no such field")]

\* methods::call with the arguments, then args.finish.
FuncCall_method(c, ok) ==
    [c EXCEPT !.pc = "done", !.log = Append(@, "method"),
              !.err = IF ok THEN None ELSE Some("call failed")]

\* The cast of the callee to a function and the call with the arguments.
FuncCall_call(c, ok) ==
    [c EXCEPT !.pc = "done", !.log = Append(@, "call"),
              !.err = IF ok THEN None ELSE Some("call failed")]

InitDispatch ==
    /\ m = Call_idle
    /\ ret = NoRet
    /\ op = NoOp

DispatchBegin ==
    /\ m.pc \in {"idle", "done"}
    /\ \E callee \in {"field", "plain"}, name \in MethodNames :
          /\ callee = "plain" => name = "at"
          /\ m' = FuncCall_begin(callee, IF callee = "plain" THEN "" ELSE name)
    /\ UNCHANGED <<ret, op>>

DispatchArgs ==
    /\ m.pc = "args"
    /\ \E ok \in BOOLEAN : m' = FuncCall_args(m, ok)
    /\ UNCHANGED <<ret, op>>

DispatchCallee ==
    /\ m.pc = "callee"
    /\ \E ok \in BOOLEAN : m' = FuncCall_callee(m, ok)
    /\ UNCHANGED <<ret, op>>

DispatchTarget ==
    /\ m.pc = "target"
    /\ \E ok \in BOOLEAN, type \in TargetTypes, has \in BOOLEAN :
          /\ type \in {"array", "string"} => ~has
          /\ ~ok => type = "string"
          /\ m' = FuncCall_target(m, ok, type, has)
    /\ UNCHANGED <<ret, op>>

DispatchMethod ==
    /\ m.pc = "method"
    /\ \E ok \in BOOLEAN : m' = FuncCall_method(m, ok)
    /\ UNCHANGED <<ret, op>>

DispatchCall ==
    /\ m.pc = "call"
    /\ \E ok \in BOOLEAN : m' = FuncCall_call(m, ok)
    /\ UNCHANGED <<ret, op>>

(***************************************************************************)
(* The bindings of a module.  The frame of the module notes what the       *)
(* source says at its top level: `defined` is the value each name was last *)
(* defined with there, `stored` the value last defined or assigned to that *)
(* binding.  The top level is what is in no code block, content block or   *)
(* `for` loop.                                                             *)
(***************************************************************************)
NestedIn(mm) ==
    \E j \in 2..Len(mm.stack) :
        \/ mm.stack[j].kind = "for"
        \/ IsSeq(mm.stack[j]) /\ mm.stack[j].scoped

Noting(after) ==
    [after EXCEPT !.stack[1] =
        [f \in DOMAIN @ \cup {"defined", "stored"} |->
            IF f \in {"defined", "stored"} THEN [n \in Names |-> None]
            ELSE @[f]]]

Noted(before, after, how, var, value) ==
    CASE after.err # None -> after
      [] how = "let" /\ ~NestedIn(before) ->
           [after EXCEPT !.stack[1].defined[var] = Some(value),
                         !.stack[1].stored[var] = Some(value)]
      [] how = "assign" /\ Holder(before.sc, var) = 1 ->
           [after EXCEPT !.stack[1].stored[var] = Some(value)]
      [] OTHER -> after

\* eval is called on main.typ.
ModuleBegin ==
    /\ m.pc = "idle"
    /\ m' = Noting(Snap(m, eval_enter(m, "eval", 1, "top", TRUE)))
    /\ ret' = NoRet /\ op' = NoOp

\* "let var = value" wherever the evaluation stands.
ModuleLet ==
    /\ InSeq
    /\ \E var \in Names, value \in Vals :
          /\ m' = Noted(m, LetBinding_eval(m, var, Span(m.location, 2), value),
                        "let", var, value)
          /\ op' = [kind |-> "let", var |-> var, value |-> value,
                    nested |-> NestedIn(m)]
    /\ ret' = NoRet

\* "var = value" wherever the evaluation stands.
ModuleAssign ==
    /\ InSeq
    /\ \E var \in Names, value \in Vals :
          /\ m' = Noted(m, Assigned(m, Binary_assign(m, var, value), var,
                                    value), "assign", var, value)
          /\ op' = [kind |-> "assign", var |-> var, value |-> value,
                    nested |-> NestedIn(m)]
    /\ ret' = NoRet

\* The return of eval: what the frame of the module noted is kept.
ModuleFinish ==
    /\ m.pc = "eval" /\ Top(m).kind = "module" /\ Top(m).imports = "top"
    /\ m' = eval_finish(m)
    /\ ret' = [kind |-> "module", defined |-> Top(m).defined,
               stored |-> Top(m).stored]
    /\ op' = NoOp

(***************************************************************************)
(* Files whose bodies end: the body of a file is a sequence of MaxStmts    *)
(* imports at most; `todo`, in the frame of its markup, is the number of   *)
(* statements it may still begin.                                          *)
(***************************************************************************)
Budgeted(before, after) ==
    LET k == Len(before.stack)
        spent == IF k > 0 /\ Len(after.stack) >= k
                       /\ "todo" \in DOMAIN after.stack[k]
                 THEN [after EXCEPT !.stack[k].todo = @ - 1]
                 ELSE after
    IN  IF Len(after.stack) > k /\ IsSeq(Top(after))
        THEN [spent EXCEPT !.stack[Len(after.stack)] =
                 [f \in DOMAIN @ \cup {"todo"} |->
                     IF f = "todo" THEN MaxStmts ELSE @[f]]]
        ELSE spent

\* A statement may begin in the body on top.
CanBegin == AtStatement /\ Top(m).todo > 0

\* eval is called on a file of the project.
ChainBegin ==
    /\ m.pc = "idle"
    /\ \E id \in {1, 2} :
          m' = Budgeted(m, Snap(m, eval_enter(m, "eval", id, "top", TRUE)))
    /\ ret' = NoRet /\ op' = NoOp

\* An import of a path.
ChainImportFile ==
    /\ CanBegin
    /\ \E target \in Files :
          LET n == import_file(m, target)
          IN  m' = Budgeted(m, IF Len(n.stack) > Len(m.stack)
                               THEN Snap(m, n) ELSE n)
    /\ ret' = NoRet /\ op' = NoOp

\* An import of the package p.
ChainImportPackage ==
    /\ CanBegin
    /\ LET n == import_package(m)
       IN  m' = Budgeted(m, IF Len(n.stack) > Len(m.stack)
                            THEN Snap(m, n) ELSE n)
    /\ ret' = NoRet /\ op' = NoOp

(***************************************************************************)
(* Expr::eval_maybe_mut in a VM with a tracer.  An identifier, a           *)
(* parenthesized expression, a field access and a call are handed to their *)
(* own eval_maybe_mut, which trace nothing at the span of the expression;  *)
(* every other shape goes through Expr::eval.                              *)
(***************************************************************************)
Shapes == {"ident", "parenthesized", "field", "call", "other"}

\* Expr::eval_maybe_mut of an expression at `span` whose value is v.
Expr_eval_maybe_mut_vm(mm, shape, span, v) ==
    LET inner == IF shape = "other" THEN Expr_eval(mm, span, v) ELSE mm
    IN  [Vm_trace(inner, span, v) EXCEPT !.stack = Mid(@)]

\* An expression at one of the positions is evaluated, through eval or, as
\* the target of a method call or of an assignment, through
\* eval_maybe_mut.
TracedExpr ==
    /\ InSeq /\ Len(m.seen) + 1 < MaxSeen
    /\ \E via \in {"eval", "eval_maybe_mut"}, shape \in Shapes,
          pos \in Positions :
          /\ m' = IF via = "eval"
                  THEN Expr_eval(m, Span(m.location, pos), 1)
                  ELSE Expr_eval_maybe_mut_vm(m, shape,
                                              Span(m.location, pos), 1)
          /\ op' = [kind |-> "traced", via |-> via, shape |-> shape,
                    hit |-> m.traced = Some(Span(m.location, pos)),
                    before |-> Len(m.tracer.values)]
    /\ ret' = NoRet

(***************************************************************************)
(* Spec: control flow and nesting.  Blocks, markup bodies and `for` loops  *)
(* nest, break / continue / return are raised anywhere, any expression     *)
(* may fail.  The scopes hold the loop variables only.                     *)
(***************************************************************************)
Next ==
    \/ Begin({1}) \/ Flow \/ Fail
    \/ EnterBlock \/ SeqNext \/ SeqBreak \/ SeqEnd
    \/ ForEnter \/ ForBail \/ ForNext({1}) \/ ForAfter \/ ForDone
    \/ Unwind \/ Finish

Spec == Init /\ [][Next]_vars

(***************************************************************************)
(* SpecFlow: the flow slot in sequences and loops.  Blocks, `for` and      *)
(* `while` loops nest; a break, continue or return is raised in a          *)
(* sequence, in the condition of a `while` or in the iterable of a `for`;  *)
(* the condition of a `while` may fail.                                    *)
(***************************************************************************)
NextFlow ==
    \/ Begin({1}) \/ Flow
    \/ EnterBlock \/ SeqNext \/ SeqBreak \/ SeqEnd
    \/ ForEnter \/ ForIterFlow \/ ForNext({1}) \/ ForAfter \/ ForDone
    \/ WhileEnterAny \/ WhileCondFlow \/ WhileCondFew \/ WhileAfter
    \/ Unwind \/ Finish

SpecFlow == Init /\ [][NextFlow]_vars

(***************************************************************************)
(* SpecSeq: the result of one markup or code sequence with set and show    *)
(* rules in it.                                                            *)
(***************************************************************************)
NextSeq ==
    \/ StreamBegin \/ StreamExpr \/ StreamRule \/ StreamFail
    \/ StreamNone \/ StreamReturn

SpecSeq == InitSeq /\ [][NextSeq]_vars

(***************************************************************************)
(* SpecSlots: the scope stack under the calls of scope.rs and writes.      *)
(***************************************************************************)
NextSlots ==
    \/ SlotsEnter \/ SlotsExit \/ SlotsDefine \/ SlotsDefineCaptured
    \/ SlotsWrite

SpecSlots == InitSlots /\ [][NextSlots]_vars

(***************************************************************************)
(* SpecPlace: assignments to targets of every shape in one scope that      *)
(* holds a binding d and a captured c.                                     *)
(***************************************************************************)
NextPlace == PlaceLet \/ PlaceCapture \/ PlaceAssign \/ PlaceDestruct

SpecPlace == InitSlots /\ [][NextPlace]_vars

(***************************************************************************)
(* SpecWhile: `while` loops of every syntax at the top level of a file.    *)
(***************************************************************************)
NextWhile ==
    \/ Begin({1}) \/ WhileEnterOf \/ WhileCondOf \/ WhileBodyFlow
    \/ WhileAfter \/ SeqNext \/ SeqBreak \/ SeqEnd \/ Unwind \/ Finish

SpecWhile == Init /\ [][NextWhile]_vars

(***************************************************************************)
(* SpecDispatch: calls whose callee is a field access or not, on targets   *)
(* of every type.                                                          *)
(***************************************************************************)
NextDispatch ==
    \/ DispatchBegin \/ DispatchArgs \/ DispatchCallee \/ DispatchTarget
    \/ DispatchMethod \/ DispatchCall

SpecDispatch == InitDispatch /\ [][NextDispatch]_vars

(***************************************************************************)
(* SpecModule: the scope of the module.  One file is evaluated: names are  *)
(* defined and assigned at the top level, in markup elements, in blocks    *)
(* and in `for` loops.                                                     *)
(***************************************************************************)
NextModule ==
    \/ ModuleBegin \/ ModuleLet \/ ModuleAssign
    \/ EnterBlock \/ SeqNext \/ SeqEnd
    \/ ForEnter \/ ForNext(Vals) \/ ForAfter \/ ForDone
    \/ Unwind \/ ModuleFinish

SpecModule == Init /\ [][NextModule]_vars

(***************************************************************************)
(* SpecChain: chains of imports between files whose bodies end.  Every     *)
(* step that can be taken is taken in the end: the evaluator runs until it *)
(* returns.                                                                *)
(***************************************************************************)
NextChain ==
    \/ ChainBegin \/ ChainImportFile \/ ChainImportPackage
    \/ ImportReturn({"include"}) \/ SeqNext \/ SeqEnd \/ Unwind \/ Finish

SpecChain == Init /\ [][NextChain]_vars /\ WF_vars(NextChain)

(***************************************************************************)
(* SpecMutTrace: one file evaluated with a traced span; its expressions,   *)
(* at the traced position and elsewhere, are evaluated through eval and    *)
(* through eval_maybe_mut.                                                 *)
(***************************************************************************)
NextMutTrace ==
    \/ BeginTraced({1}) \/ TracedExpr \/ EnterBlock
    \/ SeqNext \/ SeqEnd \/ Finish

SpecMutTrace == Init /\ [][NextMutTrace]_vars

(***************************************************************************)
(* SpecScope: bindings.  The same blocks and loops with `let`, assignment  *)
(* and lookups in them, and no flow event.                                 *)
(***************************************************************************)
NextScope ==
    \/ Begin({1}) \/ Let \/ Assign \/ Ident
    \/ EnterBlock \/ SeqNext \/ SeqEnd
    \/ ForEnter \/ ForNext(Vals) \/ ForAfter \/ ForDone
    \/ Unwind \/ Finish

SpecScope == Init /\ [][NextScope]_vars

(***************************************************************************)
(* SpecImport: import recursion.  eval is called on a file of the project; *)
(* the file under evaluation defines names and imports or includes files   *)
(* and the package p.                                                      *)
(***************************************************************************)
NextImport ==
    \/ Begin({1, 2}) \/ Let \/ Fail
    \/ ImportFile \/ ImportPackage \/ ImportReturn({"include", "wildcard"})
    \/ SeqNext \/ SeqEnd
    \/ Unwind \/ Finish

SpecImport == Init /\ [][NextImport]_vars

(***************************************************************************)
(* SpecCall: function calls.  Calls nest through closure bodies and        *)
(* through arguments; a body leaves with a break, continue or return or    *)
(* with an error.  A call is only made while no event is pending.          *)
(***************************************************************************)
NextCall ==
    \/ Begin({1}) \/ Flow \/ Fail
    \/ Call \/ ArgFail \/ Invoke \/ CallReturn
    \/ SeqNext \/ SeqBreak \/ SeqEnd
    \/ Unwind \/ Finish

SpecCall == Init /\ [][NextCall]_vars

(***************************************************************************)
(* SpecLoop: the number of iterations.  One loop at a time, a `while` or a *)
(* `for` over a collection that is empty or longer than MAX_ITERATIONS;    *)
(* the body breaks, continues, returns or fails.                           *)
(***************************************************************************)
NextLoop ==
    \/ Begin({1}) \/ FlowFresh \/ Fail
    \/ WhileEnter \/ WhileCond \/ WhileAfter
    \/ ForEnterLong \/ ForNext({1}) \/ ForAfter \/ ForDone
    \/ SeqNext \/ SeqBreak \/ SeqEnd
    \/ Unwind \/ Finish

SpecLoop == Init /\ [][NextLoop]_vars

(***************************************************************************)
(* SpecClosure: closures.  Names are defined, assigned and read; a closure *)
(* whose body refers to them is made and bound to f, and called; the body  *)
(* (a block) reads, assigns and defines the same names.                    *)
(***************************************************************************)
NextClosure ==
    \/ Begin({1}) \/ Let \/ Assign \/ Ident
    \/ ClosureDef \/ CallClosure \/ CallReturn
    \/ SeqNext \/ SeqEnd
    \/ Unwind \/ Finish

SpecClosure == Init /\ [][NextClosure]_vars

(***************************************************************************)
(* SpecTrace: tracing.  eval is called on main.typ with a tracer that      *)
(* points into main.typ or a.typ; the files define names and evaluate      *)
(* expressions at the traced position and elsewhere, and import or         *)
(* include each other.                                                     *)
(***************************************************************************)
NextTrace ==
    \/ BeginTraced({1}) \/ Let \/ Literal
    \/ ImportFile \/ ImportReturn({"include", "wildcard"})
    \/ SeqNext \/ SeqEnd
    \/ Unwind \/ Finish

SpecTrace == Init /\ [][NextTrace]_vars

(***************************************************************************)
(* SpecPair: one source evaluated with and without a traced span.  The     *)
(* source may have syntax errors; its expressions are bindings, literals,  *)
(* assignments, identifiers, break / continue / return, failing            *)
(* expressions and code blocks.                                            *)
(***************************************************************************)
NextPair ==
    \/ PairBegin
    \/ PairLet \/ PairLiteral \/ PairAssign \/ PairIdent
    \/ PairFlow \/ PairFail \/ PairBlock
    \/ PairSeqNext \/ PairSeqBreak \/ PairSeqEnd
    \/ PairUnwind \/ PairFinish

SpecPair == InitPair /\ [][NextPair]_vars

(***************************************************************************)
(* SpecBinary: `and`, `or` and `+`.  x is defined or not; the operands are *)
(* literals, identifiers that do not resolve, blocks that assign to x, and *)
(* binary expressions.                                                     *)
(***************************************************************************)
NextBinary ==
    \/ Begin({1})
    \/ Let
    \/ BinaryEnter \/ BinaryOperand \/ BinaryReturn
    \/ SeqNext \/ SeqEnd
    \/ Unwind \/ Finish

SpecBinary == Init /\ [][NextBinary]_vars

(***************************************************************************)
(* SpecDestruct: an array is destructured by a `let` with an array         *)
(* pattern.                                                                *)
(***************************************************************************)
NextDestruct ==
    \/ Begin({1})
    \/ LetDestruct
    \/ SeqNext \/ SeqEnd
    \/ Unwind \/ Finish

SpecDestruct == Init /\ [][NextDestruct]_vars

(***************************************************************************)
(* SpecApply: the forms of an import.  main.typ defines x and y in blocks  *)
(* and imports a.typ, which defines x and y, bare, with a wildcard or with *)
(* a list of names among x, y and z.                                       *)
(***************************************************************************)
NextApply ==
    \/ Begin({1})
    \/ LetNamed({"x", "y"})
    \/ EnterCode
    \/ ImportOf({2}) \/ ImportApply({"bare", "wildcard", "items"}, {"x", "y", "z"})
    \/ SeqNext \/ SeqEnd
    \/ Unwind \/ Finish

SpecApply == Init /\ [][NextApply]_vars

(***************************************************************************)
(* SpecPar: two calls of eval / eval_string, their steps interleaved in    *)
(* every order.  The programs bind x, break, fail and have code blocks.    *)
(***************************************************************************)
NextPar ==
    \/ ParBegin
    \/ ParLet \/ ParFlow \/ ParFail \/ ParBlock
    \/ ParSeqNext \/ ParSeqBreak \/ ParSeqEnd
    \/ ParUnwind \/ ParFinish

SpecPar == InitPar /\ [][NextPar]_vars

(***************************************************************************)
(* Claims checked under Spec.                                              *)
(***************************************************************************)

\* C1: eval and eval_string succeed only when no flow event is pending
\* after the root has been evaluated: a pending Break, Continue or Return
\* makes the call fail with the message of that event, so after a
\* successful return the flow slot is empty.
C1_FlowContainment ==
    m.pc = "done" =>
        /\ m.result[1].ok => m.flow = None
        /\ m.flow # None =>
              /\ ~m.result[1].ok
              /\ m.flow[1].kind = "Break" =>
                    m.result[1].msg = "cannot break outside of loop"
              /\ m.flow[1].kind = "Continue" =>
                    m.result[1].msg = "cannot continue outside of loop"
              /\ m.flow[1].kind = "Return" =>
                    m.result[1].msg = "cannot return outside of function"

\* A call that failed because a `continue` reached the root.
C1_Witness ==
    /\ m.pc = "done"
    /\ m.flow # None /\ m.flow[1].kind = "Continue"
    /\ m.result[1] = [ok |-> FALSE, msg |-> "cannot continue outside of loop"]

\* C16: a break, continue or return has the value None; met while the flow
\* slot is empty it puts its own event there, met while an event is
\* pending it leaves that event as it is: the first event raised wins.
C16_FirstEventWins ==
    op.kind \in FlowKinds =>
       /\ op.value = "None"
       /\ op.before = None => m.flow = Some(FlowEvent(op.kind, op.span))
       /\ op.before # None => m.flow = op.before
       /\ m.err = None

\* A `return` met while a `break` was pending: the break is still there.
C16_Witness ==
    /\ op.kind = "Return"
    /\ op.before # None /\ op.before[1].kind = "Break"
    /\ m.flow = op.before
    /\ m.flow[1].span # op.span

\* C2: whenever the evaluation of a node returns (normally, with a pending
\* flow event, or with an error), the scope stack is as deep as it was when
\* the evaluation was entered.
C2_ScopeBalance == ret.kind # "none" => ret.exit = ret.entry

(***************************************************************************)
(* Claims checked under SpecImport.                                        *)
(***************************************************************************)

\* C3: an import or include whose resolved file is already on the route of
\* the importing VM fails with "cyclic import" before eval is entered
\* again, for a path and for a package alike, so eval never panics.
C3_CyclicImportIsAnError ==
    /\ m.pc # "panic"
    /\ (op.kind = "import" /\ op.cyclic) => m.err = Some("cyclic import")

\* The VM that the module frame at position j of the stack belongs to: it
\* waits in the next module frame, or it is the VM in charge.
ModuleFrames(mm) == {j \in DOMAIN mm.stack : mm.stack[j].kind = "module"}

VmOf(mm, j) ==
    IF \E k \in ModuleFrames(mm) : k > j
    THEN mm.stack[Min({k \in ModuleFrames(mm) : k > j})].caller
    ELSE Registers(mm)

CallFrames(mm) == {j \in DOMAIN mm.stack : mm.stack[j].kind = "call"}

\* C5: the call depth of no VM exceeds 64; a call (plain, method or math)
\* met at depth 64 or more fails with "maximum function call depth
\* exceeded" before its callee and arguments are evaluated, a call met at a
\* smaller depth is not refused; and every call that returns (normally,
\* through a return event or with an error) leaves the depth it found.
C5_CallDepth ==
    /\ m.depth <= MAX_CALL_DEPTH
    /\ \A j \in CallFrames(m) : m.stack[j].caller.depth < MAX_CALL_DEPTH
    /\ op.kind = "call" =>
          IF op.depth >= MAX_CALL_DEPTH
          THEN /\ m.err = Some("maximum function call depth exceeded")
               /\ ~op.entered
          ELSE m.err = None /\ op.entered
    /\ ret.kind = "call" => ret.depth = ret.found

\* 64 calls are nested and the 65th has just been refused.
C5_Witness ==
    /\ Cardinality(CallFrames(m)) = MAX_CALL_DEPTH
    /\ m.depth = MAX_CALL_DEPTH
    /\ op.kind = "call" /\ op.depth = MAX_CALL_DEPTH /\ ~op.entered
    /\ m.err = Some("maximum function call depth exceeded")

(***************************************************************************)
(* Claims checked under SpecLoop.                                          *)
(***************************************************************************)

Loops(mm) == {j \in DOMAIN mm.stack : mm.stack[j].kind \in {"while", "for"}}

InBody(mm) == CallFrames(mm) # {}

\* What the closure under evaluation saw when it was made.
MadeOf(mm) == mm.stack[Max(CallFrames(mm))].made

\* The closures bound to f in the scopes of the VM in charge.
ClosuresIn(sc) ==
    {Scopes_level(sc, k)["f"].value :
        k \in {j \in 0..Len(sc.scopes) : "f" \in DOMAIN Scopes_level(sc, j)}}

\* C7: what a closure captured is fixed when the closure is made.  Every
\* closure holds, whatever was defined or assigned since, the values its
\* names had when it was made; a read of a captured name in the body gives
\* that value; an assignment to a captured name in the body fails; and the
\* bindings of the caller are after the call what they were before it.
C7_CaptureImmutable ==
    /\ \A f \in ClosuresIn(m.sc) :
          \A n \in Names : Scope_get(f.captured, n) = f.made[n]
    /\ (InBody(m) /\ op.kind = "ident" /\ Holder(m.sc, op.var) <= 1) =>
          op.value = MadeOf(m)[op.var]
    /\ (InBody(m) /\ op.kind = "assign" /\ Holder(m.sc, op.var) = 1) =>
          m.err = Some("variables from outside the function are read-only")
    /\ ret.kind = "call" => ret.actual = ret.expect

\* The body reads 1 for x after x was set to 2 where the closure was made.
C7_Witness ==
    /\ InBody(m) /\ m.err = None
    /\ op.kind = "ident" /\ op.var = "x" /\ op.value = Some(1)
    /\ Holder(m.sc, "x") = 1
    /\ Visible(m.stack[Max(CallFrames(m))].caller.sc)["x"] = Some(2)

(***************************************************************************)
(* Claims checked under SpecScope.                                         *)
(***************************************************************************)

\* C8: a name defined in the scope of a block or by the pattern of a `for`
\* is what a lookup gives while that scope is active, whatever the outer
\* scopes hold; and when a block or a `for` that entered a scope has
\* returned normally, the scope stack is as deep as at entry and a lookup
\* of every name gives what it gave at entry, the assignments made in
\* between to bindings older than the node included: the bindings defined
\* in between are gone.
C8_Shadowing ==
    /\ op.kind \in {"let", "pattern"} =>
          Scopes_get(m.sc, op.var) = Some(op.value)
    /\ (ret.kind # "none" /\ ret.scoped /\ ret.how = "ok") =>
          /\ ret.exit = ret.entry
          /\ ret.actual = ret.expect

\* A block in which x was 2 has returned, and x is 1 again.
C8_Witness ==
    /\ ret.kind = "code" /\ ret.scoped /\ ret.how = "ok"
    /\ ret.inner["x"] = Some(2)
    /\ ret.actual["x"] = Some(1)
    /\ m.err = None

(***************************************************************************)
(* Claims checked under SpecTrace.                                         *)
(***************************************************************************)

\* C9: the tracer never holds more than 10 values, and what it holds are
\* the first 10 of the values handed to it, in the order they were handed
\* over, by whichever VM of the import recursion: a value handed over
\* after the tenth is dropped and the log stays as it is.
C9_TraceLog ==
    /\ Len(m.tracer.values) <= Tracer_MAX
    /\ m.tracer.values =
          SubSeq(m.seen, 1, IF Len(m.seen) < Tracer_MAX THEN Len(m.seen)
                            ELSE Tracer_MAX)

\* An eleventh value was seen in an imported file and dropped.
C9_Witness ==
    /\ Len(m.seen) = Tracer_MAX + 1
    /\ Len(m.tracer.values) = Tracer_MAX
    /\ m.pc = "eval" /\ m.route = <<2, 1>>
    /\ op.kind \in {"expr", "let"}

(***************************************************************************)
(* Claims checked under SpecPair.                                          *)
(***************************************************************************)

\* The evaluation with what belongs to the tracer taken away.
Untraced(mm) ==
    [mm EXCEPT !.tracer = Tracer_new(None), !.traced = None, !.seen = <<>>]

\* C10: as stated, for every source: when the evaluation with a traced
\* span in the file and the one without have both returned, they have
\* returned the same outcome (the same module scope, or the same failure).
C10_SameOutcome ==
    (m.a.pc = "done" /\ m.b.pc = "done") => m.a.result = m.b.result

\* C10: for a source without syntax errors, the evaluation with a traced
\* span in the file and the one without go through the same scopes, flow
\* events, errors and frames and return the same outcome; they differ in
\* the traced span of the VM and in the log of the tracer only, and the
\* tracer without a span logs nothing.
C10_TracingTransparent ==
    m.parsed =>
       /\ Untraced(m.a) = m.b
       /\ m.a.result = m.b.result
       /\ m.b.tracer.values = <<>>

\* Both evaluations of a source without syntax errors have returned a
\* module in which x is bound, and the tracer of the first has logged the
\* values bound at the traced span.
C10_Witness ==
    /\ m.parsed
    /\ m.a.pc = "done" /\ m.b.pc = "done"
    /\ m.a.result = m.b.result
    /\ m.a.result[1].ok
    /\ Scope_get(m.a.result[1].scope, "x") # None
    /\ Len(m.a.tracer.values) = MaxTraced
    /\ m.b.tracer.values = <<>>

(***************************************************************************)
(* Claims checked under SpecBinary.                                        *)
(***************************************************************************)
BinaryFrames == {j \in DOMAIN m.stack : m.stack[j].kind = "binary"}

\* C11: in `L and R` with L false and in `L or R` with L true, R is never
\* evaluated: the expression has the value of L, and the bindings are as L
\* left them; when L has returned any other value, the evaluation of R
\* begins once, after L has returned, and the expression has no value
\* before R has returned.  While L has not returned, R is not evaluated.
C11_ShortCircuit ==
    /\ \A j \in BinaryFrames :
          LET f == m.stack[j]
          IN  /\ f.st \in {"lhs", "lhs_run"} =>
                    f.runs = 0 /\ f.lhs = None /\ f.value = None
              /\ f.st = "rhs" =>
                    /\ f.runs = 0 /\ f.lhs # None /\ f.value = None
                    /\ ~ Binary_short_circuit(f.bop, f.lhs[1])
              /\ f.st = "rhs_run" =>
                    /\ f.runs = 1 /\ f.lhs # None /\ f.value = None
                    /\ ~ Binary_short_circuit(f.bop, f.lhs[1])
              /\ f.st = "done" =>
                    IF (f.bop = "and" /\ f.lhs = Some("false"))
                       \/ (f.bop = "or" /\ f.lhs = Some("true"))
                    THEN f.runs = 0 /\ f.value = f.lhs
                    ELSE f.runs = 1 /\ f.lhs # None
    /\ op.kind = "binary" =>
          IF (op.bop = "and" /\ op.lhs = "false")
             \/ (op.bop = "or" /\ op.lhs = "true")
          THEN op.runs = 0 /\ op.value = op.lhs /\ op.now = op.after_lhs
          ELSE op.runs = 1

\* `L and R` has returned false without R: L was a block that assigned 2
\* to x and gave false, and x is 2.
C11_Witness ==
    /\ op.kind = "binary" /\ op.bop = "and" /\ op.lhs = "false"
    /\ op.runs = 0 /\ op.value = "false"
    /\ op.now["x"] = Some(2)
    /\ m.err = None

(***************************************************************************)
(* Claims checked under SpecDestruct.                                      *)
(***************************************************************************)
Sinks(bindings) == {j \in DOMAIN bindings : bindings[j].kind = "Sink"}

NoNamed(bindings) == \A j \in DOMAIN bindings : bindings[j].kind # "Named"

\* What the binding at position j of a pattern with its sink at position k
\* (0 for none) is to receive from the array.
Expected(value, bindings, k, j) ==
    LET over == Len(value) - Len(bindings)
    IN  IF k = 0 \/ j < k THEN value[j]
        ELSE IF j = k THEN Arr(SubSeq(value, k, k + over))
        ELSE value[j + over]

\* The bindings that have a name, in pattern order.
RECURSIVE Named_positions(_, _)
Named_positions(bindings, j) ==
    IF j > Len(bindings) THEN <<>>
    ELSE IF bindings[j].name # None
         THEN <<j>> \o Named_positions(bindings, j + 1)
         ELSE Named_positions(bindings, j + 1)

\* C12: an array of length len destructured by a pattern of n bindings,
\* none of them named: without a sink it succeeds iff len = n; with one
\* sink at position k it succeeds iff len >= n - 1; on success every
\* binding with a name has received, in pattern order, its element -- the
\* ones before the sink elements 0..k-1, the sink the slice of
\* 1 + len - n elements from k, the ones after it the rest; a failure for
\* want of elements says "not enough elements to destructure", one for
\* leftover elements "too many elements to destructure".
C12_DestructArray ==
    (op.kind = "destruct" /\ NoNamed(op.bindings)
        /\ Cardinality(Sinks(op.bindings)) <= 1) =>
       LET len == Len(op.value)
           n == Len(op.bindings)
           k == IF Sinks(op.bindings) = {} THEN 0
                ELSE CHOOSE j \in Sinks(op.bindings) : TRUE
           named == Named_positions(op.bindings, 1)
       IN  /\ k = 0 => (op.err = None <=> len = n)
           /\ k # 0 => (op.err = None <=> len >= n - 1)
           /\ op.err = None =>
                 /\ Len(op.calls) = Len(named)
                 /\ \A c \in DOMAIN named :
                       op.calls[c] =
                          <<op.bindings[named[c]].name[1],
                            Expected(op.value, op.bindings, k, named[c])>>
           /\ (op.err # None /\ len < n - Cardinality(Sinks(op.bindings))) =>
                 op.err = Some("not enough elements to destructure")
           /\ (op.err # None /\ len >= n) =>
                 op.err = Some("too many elements to destructure")

\* (a, ..s, b) has taken an array of three: a the first, s the one in the
\* middle, b the last.
C12_Witness ==
    /\ op.kind = "destruct" /\ op.err = None
    /\ Len(op.bindings) = 3 /\ Len(op.value) = 3
    /\ op.bindings[1].name = Some("a")
    /\ op.bindings[2] = [kind |-> "Sink", name |-> Some("s")]
    /\ op.bindings[3].name = Some("b")
    /\ Scopes_get(m.sc, "a") = Some(op.value[1])
    /\ Scopes_get(m.sc, "s") = Some(Arr(<<op.value[2]>>))
    /\ Scopes_get(m.sc, "b") = Some(op.value[3])

\* The variables a pattern binds, in pattern order, read back from the
\* scopes.
RECURSIVE Collect(_, _, _)
Collect(sc, bindings, j) ==
    IF j > Len(bindings) THEN <<>>
    ELSE IF bindings[j].kind = "Normal"
         THEN Scopes_get(sc, bindings[j].name[1])
                 \o Collect(sc, bindings, j + 1)
         ELSE Collect(sc, bindings, j + 1)

Sinkless(bindings) ==
    \A j \in DOMAIN bindings : bindings[j].kind \in {"Normal", "Placeholder"}

Distinct(bindings) ==
    /\ \A j \in DOMAIN bindings : bindings[j].kind = "Normal"
    /\ \A i, j \in DOMAIN bindings :
          bindings[i].name = bindings[j].name => i = j

\* C13: as stated, for every pattern without a sink that has as many
\* bindings as the array has elements: the variables the pattern has bound,
\* collected in pattern order, are the array.
C13_RoundTripAny ==
    (op.kind = "destruct" /\ Sinkless(op.bindings)
        /\ Len(op.bindings) = Len(op.value)) =>
       /\ op.err = None
       /\ Collect(m.sc, op.bindings, 1) = op.value

\* C13: for a pattern whose bindings are identifiers, no two of them the
\* same, and an array of as many elements, the binding succeeds and the
\* variables collected in pattern order are the array.
C13_RoundTrip ==
    (op.kind = "destruct" /\ Distinct(op.bindings)
        /\ Len(op.bindings) = Len(op.value)) =>
       /\ op.err = None
       /\ Collect(m.sc, op.bindings, 1) = op.value

\* (b, c, a) has taken an array of three and gives it back.
C13_Witness ==
    /\ op.kind = "destruct" /\ op.err = None
    /\ Len(op.bindings) = 3 /\ Distinct(op.bindings)
    /\ op.bindings[1].name = Some("b")
    /\ op.value = <<Value_Int(1), Value_Int(2), Value_Int(1)>>
    /\ Collect(m.sc, op.bindings, 1) = op.value

(***************************************************************************)
(* Claims checked under SpecApply.                                         *)
(***************************************************************************)

\* The top scope `top` extended by the names N of the scope src.
Imported(top, after, src, N) ==
    /\ DOMAIN after = DOMAIN top \cup N
    /\ \A n \in N : after[n] = Slot_new(src[n].value, "Normal")
    /\ \A n \in DOMAIN top \ N : after[n] = top[n]

\* C14: an import of a module leaves the enclosing scopes of the importing
\* VM as they were and changes its top scope only: with a wildcard every
\* name of the module's scope is defined there with the module's value;
\* with a list, each listed name the module has is defined, and there is
\* one "unresolved import" error for each listed name it lacks, the import
\* failing iff there is one; a bare import defines the one name of the
\* module.
C14_ImportFrame ==
    (op.kind = "applied" /\ op.module.ok) =>
       LET src == op.module.scope
           top == op.before.top
       IN  /\ m.sc.scopes = op.before.scopes
           /\ op.imports = "wildcard" =>
                 Imported(top, m.sc.top, src, DOMAIN src) /\ m.err = None
           /\ op.imports = "items" =>
                 /\ Imported(top, m.sc.top, src, op.idents \cap DOMAIN src)
                 /\ DOMAIN op.errors = op.idents \ DOMAIN src
                 /\ \A n \in DOMAIN op.errors :
                       op.errors[n] = "unresolved import"
                 /\ m.err = None <=> op.idents \subseteq DOMAIN src
           /\ op.imports = "bare" =>
                 /\ DOMAIN m.sc.top =
                       DOMAIN top \cup {Module_name(op.module.id)}
                 /\ m.sc.top[Module_name(op.module.id)] =
                       Slot_new(Module_value(op.module.id), "Normal")
                 /\ \A n \in DOMAIN top \ {Module_name(op.module.id)} :
                       m.sc.top[n] = top[n]
                 /\ m.err = None

\* Inside a block below a scope that binds x, `import "a.typ": x, y, z`
\* from a module that has x only: x is defined in the block, y of the
\* block is as it was, and there are two errors.
C14_Witness ==
    /\ op.kind = "applied" /\ op.module.ok /\ op.imports = "items"
    /\ op.idents = {"x", "y", "z"}
    /\ DOMAIN op.module.scope = {"x"}
    /\ Len(op.before.scopes) = 1
    /\ "x" \in DOMAIN op.before.scopes[1]
    /\ DOMAIN op.before.top = {"y"}
    /\ DOMAIN m.sc.top = {"x", "y"}
    /\ DOMAIN op.errors = {"y", "z"}
    /\ m.err = Some("unresolved import")

(***************************************************************************)
(* Claims checked under SpecPar.                                           *)
(***************************************************************************)

Pending_kind(mm) == IF mm.flow = None THEN "None" ELSE mm.flow[1].kind

\* The loop on top of the stack, entered with an empty slot, has evaluated
\* its body and looks at the slot.
AfterBody == Running /\ Top(m).kind \in {"while", "for"}
                     /\ Top(m).saved = None /\ Top(m).st = "body"

\* The step is the normal return of a loop entered with an empty slot.
LoopReturns ==
    /\ Running /\ Top(m).kind \in {"while", "for"} /\ Top(m).saved = None
    /\ m'.stack = Pop(m.stack) /\ m'.err = None

\* What the loop does with the event it finds after the body.
LoopObserves ==
    /\ AfterBody /\ Pending_kind(m) = "Break"
          => m'.flow = None /\ m'.stack = Pop(m.stack)
    /\ AfterBody /\ Pending_kind(m) = "Continue"
          => /\ m'.flow = None /\ Len(m'.stack) = Len(m.stack)
             /\ Top(m').kind = Top(m).kind
             /\ Top(m').st \in {"cond", "iter"}
    /\ AfterBody /\ Pending_kind(m) = "Return"
          => m'.flow = m.flow /\ m'.stack = Pop(m.stack)

\* C17 as stated: a loop entered with an empty slot clears the Break or the
\* Continue it finds after the body and keeps the Return, and whenever it
\* returns normally the slot is empty or holds a Return.
C17_LoopFlowAny ==
    [][/\ LoopObserves
       /\ LoopReturns => Pending_kind(m') \in {"None", "Return"}]_vars

\* C17: a loop entered with an empty slot clears the Break or the Continue
\* it finds after the body and keeps the Return; when it returns normally
\* the slot is empty, or holds a Return, or holds the event that the
\* condition or the iterable raised before the loop ended without another
\* evaluation of the body.
C17_LoopFlow ==
    [][/\ LoopObserves
       /\ LoopReturns
             => \/ Pending_kind(m') \in {"None", "Return"}
                \/ Top(m).st \in {"cond", "iter"} /\ m'.flow = m.flow]_vars

\* A loop entered with an empty slot has returned on the Break its body
\* left, and the slot is empty.
C17_Witness ==
    /\ ret.kind \in {"while", "for"} /\ ret.how = "ok" /\ ret.saved = None
    /\ ret.st = "body" /\ ret.raised # None /\ ret.raised[1].kind = "Break"
    /\ m.flow = None

\* The kinds of the frames of sequences and loops.
Constructs == {"markup", "code", "while", "for"}

\* The step enters a sequence or a loop.
Starts ==
    /\ m.pc = "eval" /\ m'.pc = "eval"
    /\ Len(m'.stack) = Len(m.stack) + 1 /\ Top(m').kind \in Constructs

\* The step is the normal return of a sequence or of a loop.
Returns ==
    /\ Running /\ Top(m).kind \in Constructs
    /\ m'.stack = Pop(m.stack) /\ m'.err = None

\* The loop on top of the stack consumes the Break its body left.
Consumes ==
    /\ Top(m).kind \in {"while", "for"} /\ Top(m).st = "body"
    /\ Pending_kind(m) = "Break" /\ m'.flow = None

\* C18: a sequence or a loop takes the event pending at its start and runs
\* from an empty slot; on a normal return the slot holds the event taken,
\* whatever the construct left in it, and when none was taken the slot
\* keeps what the construct left, but for the Break a loop consumed.
C18_SaveRestore ==
    [][/\ Starts => Top(m').saved = m.flow /\ m'.flow = None
       /\ Returns /\ Top(m).saved # None => m'.flow = Top(m).saved
       /\ Returns /\ Top(m).saved = None
             => m'.flow = m.flow \/ Consumes]_vars

\* A sequence or a loop entered with an event pending has raised an event
\* of its own and returned: the slot holds the first event again.
C18_Witness ==
    /\ ret.kind \in Constructs /\ ret.how # "err"
    /\ ret.saved # None /\ ret.raised # None /\ ret.raised # ret.saved
    /\ m.flow = ret.saved

(***************************************************************************)
(* Claims checked under SpecSeq.                                           *)
(***************************************************************************)
\* The displayed values in a content, each with the positions of the rules
\* that style it, the outermost first.
RECURSIVE Chains(_, _)
Chains(content, chain) ==
    UNION {IF content[j].kind \in Rules
           THEN Chains(content[j].body, Append(chain, content[j].pos))
           ELSE {[pos |-> content[j].pos, chain |-> chain]} :
           j \in DOMAIN content}

\* The positions of the expressions whose value is in the content.
Shown(content) == {e.pos : e \in Chains(content, <<>>)}

\* The expression evaluated last.
Last_eval == m.log[Len(m.log)]

\* The sequence has returned normally and the expression evaluated last,
\* no rule, had left an event pending.
RaisedLast ==
    /\ m.pc = "done" /\ m.log # <<>>
    /\ Last_eval.pending /\ Last_eval.kind \notin Rules

\* No expression has been evaluated after one that left an event pending.
StopsAtEvent == \A k \in 1..(Len(m.log) - 1) : ~m.log[k].pending

\* C19 as stated: no expression of a sequence is evaluated after one that
\* left an event pending, and the value of the expression that raised the
\* event is in the result of the sequence.
C19_StopAndKeepAny ==
    /\ StopsAtEvent
    /\ RaisedLast => Last_eval.pos \in Shown(m.result)

\* C19: no expression of a sequence is evaluated after one that left an
\* event pending (the tail of a rule that raised it included); the value
\* of the expression that raised the event is in the result of the
\* sequence, unless the sequence is markup and the value a label, which is
\* not appended.
C19_StopAndKeep ==
    /\ StopsAtEvent
    /\ RaisedLast
          => IF m.mode = "markup" /\ Last_eval.kind = "label"
             THEN Last_eval.pos \notin Shown(m.result)
             ELSE Last_eval.pos \in Shown(m.result)

\* A sequence has returned after its second expression or a later one
\* raised an event: the value of that expression is in the result.
C19_Witness ==
    /\ RaisedLast /\ Len(m.log) >= 2 /\ ~m.done
    /\ Last_eval.kind = "text" /\ Last_eval.pos \in Shown(m.result)

\* The positions up to j of the rules among the expressions evaluated, in
\* source order.
RECURSIVE Rules_upto(_, _)
Rules_upto(log, j) ==
    IF j = 0 THEN <<>>
    ELSE IF log[j].kind \in Rules THEN Append(Rules_upto(log, j - 1), j)
         ELSE Rules_upto(log, j - 1)

\* A styled tail is the last node of its sequence, at every depth.
RECURSIVE StyledLast(_)
StyledLast(content) ==
    \A j \in DOMAIN content :
        content[j].kind \in Rules
            => j = Len(content) /\ StyledLast(content[j].body)

\* C20: in the result of a sequence, the value of the expression at
\* position j is styled by the rules at the positions before j and by no
\* other, the earliest outermost, and a styled tail is the last thing of
\* the sequence that holds it.
C20_RuleScope ==
    m.pc = "done"
        => /\ \A e \in Chains(m.result, <<>>) :
                 e.chain = Rules_upto(m.log, e.pos - 1)
           /\ StyledLast(m.result)

\* A sequence has returned a value that no rule styles, followed by a value
\* inside the tails of two rules.
C20_Witness ==
    /\ m.pc = "done"
    /\ \E e, f \in Chains(m.result, <<>>) :
          e.chain = <<>> /\ Len(f.chain) = 2 /\ e.pos < f.chain[1]

(***************************************************************************)
(* Claims checked under SpecSlots.                                         *)
(***************************************************************************)
\* The scopes of the stack from the top scope outwards.
Chain_of(sc) ==
    [k \in 1..(Len(sc.scopes) + 1) |->
        IF k = 1 THEN sc.top ELSE sc.scopes[Len(sc.scopes) + 2 - k]]

\* The first scope of the chain that binds var, 0 when none does.
RECURSIVE First_binding(_, _, _)
First_binding(chain, var, k) ==
    IF k > Len(chain) THEN 0
    ELSE IF var \in DOMAIN chain[k] THEN k
    ELSE First_binding(chain, var, k + 1)

\* C21: get_maybe_mut resolves the binding get resolves (the first scope
\* from the top outwards that binds the name, then the library); it gives
\* a location, that of this binding, exactly when the binding is a Normal
\* slot of the stack, a copy tagged Captured for a Captured slot whatever
\* the scopes further out hold, a copy tagged Const for a binding of the
\* library, and an error for an unknown name; a write through a Captured
\* or library name fails and leaves the scopes as they were.
C21_MaybeMut ==
    op.kind = "write" =>
        LET chain == Chain_of(op.before)
            k == First_binding(chain, op.var, 1)
        IN  /\ k > 0 =>
                /\ op.got = Some(chain[k][op.var].value)
                /\ chain[k][op.var].kind = "Normal"
                       => /\ op.loc = MaybeMut_Mut(k - 1)
                          /\ m.err = None
                          /\ Scopes_get(m.sc, op.var) = Some(op.value)
                /\ chain[k][op.var].kind = "Captured"
                       => /\ op.loc = MaybeMut_Im(op.got[1], "Captured")
                          /\ m.err # None /\ m.sc = op.before
            /\ k = 0 /\ op.var \in DOMAIN Library_global =>
                /\ op.got = Some(Library_global[op.var].value)
                /\ op.loc = MaybeMut_Im(op.got[1], "Const")
                /\ m.err # None /\ m.sc = op.before
            /\ k = 0 /\ op.var \notin DOMAIN Library_global =>
                /\ op.got = None /\ op.loc.tag = "Err"
                /\ m.err # None /\ m.sc = op.before

\* A write to a name that is Captured in the top scope and Normal in the
\* scope below has failed.
C21_Witness ==
    /\ op.kind = "write" /\ op.var \in DOMAIN op.before.top
    /\ op.before.top[op.var].kind = "Captured"
    /\ Len(op.before.scopes) > 0
    /\ op.var \in DOMAIN op.before.scopes[Len(op.before.scopes)]
    /\ op.before.scopes[Len(op.before.scopes)][op.var].kind = "Normal"
    /\ m.err = Some("variables from outside the function are read-only")
    /\ m.sc = op.before


(***************************************************************************)
(* C22                                                                     *)
(***************************************************************************)
\* The shapes that yield a mutable location: an identifier of a Normal
\* slot, a parenthesized such expression, a field that the dictionary of a
\* mutable location has, a method call that returns a mutable reference.
RECURSIVE MutShape(_, _)
MutShape(sc, e) ==
    CASE e.shape = "ident" ->
           LET k == First_binding(Chain_of(sc), e.var, 1)
           IN  k > 0 /\ Chain_of(sc)[k][e.var].kind = "Normal"
      [] e.shape = "paren" -> MutShape(sc, e.inner[1])
      [] e.shape \in {"field", "call"} ->
           /\ MutShape(sc, e.inner[1])
           /\ e.shape = "call" => e.var = "at"
           /\ LET r == Expr_eval_maybe_mut(sc, e.inner[1])
                  v == IF r.tag = "Err" THEN V_None ELSE MaybeMut_value(sc, r)
              IN  v.type = "dict" /\ e.field \in Dict_keys(v.dict)
      [] OTHER -> FALSE

\* The scopes in which the i-th target of the assignment is evaluated.
ScopesAt(i) ==
    IF i = 1 THEN op.before
    ELSE Place_assign([Slots_idle EXCEPT !.sc = op.before],
                      op.targets[1], [ok |-> TRUE, value |-> V_Int(2)]).sc

\* What eval_maybe_mut yields for the targets of the assignment.
YieldsByShape ==
    \A i \in DOMAIN op.targets :
        /\ op.locs[i].tag = "Mut" <=> MutShape(ScopesAt(i), op.targets[i])
        /\ op.targets[i].shape = "lit" => op.locs[i] = MaybeMut_temp(Lit_value)

TemporaryReason == Some(MaybeMut_mutate_error("Temporary"))

\* C22 as stated: eval_maybe_mut yields a mutable location only for the
\* four shapes, and an assignment (plain, compound or destructuring) with a
\* target of another shape fails with the temporary-immutability reason and
\* changes no binding.
C22_TemporaryTargetAny ==
    op.kind = "assign" =>
        /\ YieldsByShape
        /\ (\E i \in DOMAIN op.targets : op.targets[i].shape = "lit")
               => m.err = TemporaryReason /\ m.sc = op.before

\* C22: eval_maybe_mut yields a mutable location only for an identifier of
\* a Normal slot, a parenthesized expression whose inner expression yields
\* one, a field that the dictionary of a mutable location has, or a method
\* call that returns a mutable reference, and a temporary for every other
\* shape.  A plain or compound assignment to a target of another shape
\* fails with the temporary-immutability reason and changes no binding.  A
\* destructuring assignment fails with that reason at the first such target
\* when the targets before it were assigned: those keep their new values
\* and nothing else is changed.
C22_TemporaryTarget ==
    op.kind = "assign" =>
        /\ YieldsByShape
        /\ op.targets[1].shape = "lit"
               => m.err = TemporaryReason /\ m.sc = op.before
        /\ Len(op.targets) = 2 /\ op.targets[2].shape = "lit"
             /\ op.locs[1].tag = "Mut"
               => /\ m.err = TemporaryReason
                  /\ m.sc = Place_store(op.before, op.locs[1], V_Int(2))

\* A destructuring assignment has failed at its second target, a temporary,
\* after its first target, a field of d, was given a new value.
C22_Witness ==
    /\ op.kind = "assign" /\ op.bop = "destruct"
    /\ op.targets[1].shape = "field" /\ op.targets[2].shape = "lit"
    /\ op.locs[1].tag = "Mut" /\ m.err = TemporaryReason
    /\ m.sc # op.before


(***************************************************************************)
(* C23                                                                     *)
(***************************************************************************)
\* What the target t of the assignment "t.k .." gave before it.
TargetOf == Expr_eval_maybe_mut(op.before, op.targets[1].inner[1])

\* C23: a plain assignment t.k = v, t a mutable location that holds a
\* dictionary, leaves the dictionary with k bound to v, whether or not k
\* was there, every other key with its value at its position, and gives
\* None; a compound assignment to an absent k fails and does not create
\* it; on a mutable non-dictionary the plain assignment fails with
\* "expected dictionary", on an immutable t with the reason of t.
C23_FieldAssign ==
    op.kind = "assign" /\ op.bop # "destruct" /\ op.targets[1].shape = "field"
      /\ TargetOf.tag # "Err" =>
        LET t == TargetOf
            k == op.targets[1].field
            old == MaybeMut_value(op.before, t)
        IN  /\ op.bop = "=" /\ t.tag = "Mut" /\ old.type = "dict" =>
                LET new == Place_read(m.sc, t)
                IN  /\ m.err = None /\ m.out = Some(V_None)
                    /\ new.type = "dict"
                    /\ Dict_keys(new.dict) = Dict_keys(old.dict) \cup {k}
                    /\ Dict_get(new.dict, k) = V_Int(2)
                    /\ \A i \in DOMAIN old.dict :
                          old.dict[i].key # k => new.dict[i] = old.dict[i]
                    /\ Len(new.dict) = Cardinality(Dict_keys(new.dict))
            /\ op.bop # "=" /\ t.tag = "Mut" /\ old.type = "dict"
                 /\ k \notin Dict_keys(old.dict) =>
                    m.err # None /\ m.sc = op.before
            /\ op.bop = "=" /\ t.tag = "Mut" /\ old.type # "dict" =>
                    m.err = Some("expected dictionary") /\ m.sc = op.before
            /\ op.bop = "=" /\ t.tag = "Im" =>
                    /\ m.err = Some(MaybeMut_mutate_error(t.reason))
                    /\ m.sc = op.before

\* A plain assignment has given the dictionary of d, which held only the
\* key a, the key b behind it.
C23_Witness ==
    /\ op.kind = "assign" /\ op.bop = "=" /\ m.err = None
    /\ op.targets[1] = E_Field(E_Ident("d"), "b")
    /\ Scopes_get(op.before, "d") =
           Some(V_Dict(<<[key |-> "a", value |-> V_Int(1)]>>))
    /\ Scopes_get(m.sc, "d") =
           Some(V_Dict(<<[key |-> "a", value |-> V_Int(1)],
                         [key |-> "b", value |-> V_Int(2)]>>))


(***************************************************************************)
(* C24                                                                     *)
(***************************************************************************)
AlwaysTrue == Some("condition is always true")

\* The loop has ended at the check: its frame is gone and nothing failed.
EndedQuietly == m.err = None /\ Len(m.stack) = op.depth - 1

\* C24 as stated: the loop fails with "condition is always true" exactly
\* when the condition is true at the first check, contains no identifier
\* and no math identifier, and the body contains no break and no return.
C24_AlwaysTrueAny ==
    op.kind = "check" =>
        (m.err = AlwaysTrue
            <=> /\ op.i = 0 /\ op.cond = "true"
                /\ {"Ident", "MathIdent"} \cap Kinds_in(op.condition) = {}
                /\ {"Break", "Return"} \cap Kinds_in(op.body) = {})

\* The condition holds no identifier and no math identifier, the names of
\* the fields in field accesses aside.
RECURSIVE NoVariable(_)
NoVariable(expr) ==
    /\ expr.kind \notin {"Ident", "MathIdent"}
    /\ \A i \in DOMAIN expr.kids :
          (expr.kind = "FieldAccess" /\ i = 2) \/ NoVariable(expr.kids[i])

\* C24: the loop fails with "condition is always true" exactly when the
\* condition is true at the first check, holds no identifier and no math
\* identifier other than the field names of field accesses, and the body
\* contains no break and no return; the body has then not been evaluated.
\* Such a condition that is false ends the loop with no error, and a
\* `continue` in the body does not prevent the error.
C24_AlwaysTrue ==
    op.kind = "check" =>
        /\ m.err = AlwaysTrue
              <=> /\ op.i = 0 /\ op.cond = "true"
                  /\ NoVariable(op.condition)
                  /\ {"Break", "Return"} \cap Kinds_in(op.body) = {}
        /\ m.err = AlwaysTrue
              => op.runs = 0 /\ Len(m.stack) = op.depth
        /\ NoVariable(op.condition) /\ op.cond = "false" => EndedQuietly
        /\ m.err = None /\ op.cond = "true" => Len(m.stack) = op.depth + 1

\* A loop whose condition is the call of a method of a literal and whose
\* body holds a `continue` has failed at its first check.
C24_Witness ==
    /\ op.kind = "check" /\ m.err = AlwaysTrue
    /\ op.condition.kind = "FuncCall" /\ "Continue" \in Kinds_in(op.body)


(***************************************************************************)
(* C25                                                                     *)
(***************************************************************************)
Whiles(mm) == {j \in DOMAIN mm.stack : mm.stack[j].kind = "while"}

\* C25: a `while` loop counts its completed iterations, those ended by a
\* `continue` included: when the condition is due, every entry of the body
\* has been counted and its value joined.  The loop fails with the
\* infinite-loop error only when the condition is true after MAX_ITERATIONS
\* (10,000) counted iterations, the body having been entered that many
\* times and no more; a loop whose condition is false after at most
\* MAX_ITERATIONS iterations returns normally, the values of all its
\* iterations joined.
C25_WhileCount ==
    /\ \A j \in Whiles(m) :
          /\ m.stack[j].st = "cond" /\ m.err = None =>
                /\ m.stack[j].i = m.stack[j].runs
                /\ m.stack[j].joined = m.stack[j].runs
          /\ m.stack[j].st = "body" => m.stack[j].runs = m.stack[j].i + 1
          /\ m.stack[j].i <= MAX_ITERATIONS
    /\ m.pc = "eval" /\ m.err = Some("loop seems to be infinite")
         /\ Top(m).kind = "while" =>
            Top(m).i = MAX_ITERATIONS /\ Top(m).runs = MAX_ITERATIONS
    /\ m.pc = "eval" /\ m.err = None /\ Top(m).kind = "while"
         /\ Top(m).st = "cond" /\ Top(m).i = MAX_ITERATIONS =>
            ~RunningOf(WhileLoop_cond(m, "true", FALSE, "code"))
    /\ ret.kind = "while" /\ ret.how = "ok" /\ ret.st = "cond" =>
            /\ m.err = None /\ ret.i <= MAX_ITERATIONS
            /\ ret.joined = ret.i

\* A loop has returned normally after MAX_ITERATIONS iterations.
C25_Witness ==
    /\ ret.kind = "while" /\ ret.how = "ok" /\ ret.st = "cond"
    /\ ret.i = MAX_ITERATIONS /\ m.err = None


(***************************************************************************)
(* C26                                                                     *)
(***************************************************************************)
\* The places of an entry in the log of the call.
Logged(what) == {i \in DOMAIN m.log : m.log[i] = what}

\* C26: in a call t.name(args) the arguments are evaluated once and before
\* the target; the call goes to the method iff the value of t is no symbol,
\* module or function, or its type has a method of the name; otherwise name
\* is read as a field of t and the value of the field is called with the
\* arguments already evaluated.  A function sends `with` and `where` to the
\* method even when it has a field of the name; a symbol and a module
\* always go to the field.
C26_Dispatch ==
    m.callee = "field" =>
        /\ Cardinality(Logged("args")) <= 1
        /\ m.log # <<>> => m.log[1] = "args"
        /\ Logged("target") # {} /\ m.type # "none" =>
              /\ m.route = "method"
                    <=> \/ m.type \notin {"symbol", "module", "function"}
                        \/ m.name \in methods_on(m.type)
              /\ m.route # "method" => Logged("field") # {}
              /\ m.route # "method" /\ m.has => m.route = "field"
              /\ Logged("method") # {} => m.route = "method"
              /\ Logged("call") # {} =>
                    m.route = "field" /\ m.has /\ Logged("method") = {}
              /\ m.type = "function" /\ m.name \in {"with", "where"}
                    => m.route = "method"
              /\ m.type \in {"symbol", "module"} => m.route # "method"

\* A function that has a field called `with` has had its method `with`
\* called.
C26_Witness ==
    /\ m.callee = "field" /\ m.type = "function" /\ m.name = "with"
    /\ m.has /\ m.pc = "done" /\ Logged("method") # {}


(***************************************************************************)
(* C27                                                                     *)
(***************************************************************************)
\* eval has returned a module.
ModuleReturned == m.pc = "done" /\ ret.kind = "module" /\ m.result[1].ok

C28_ImportsEnd ==
    /\ [](Cardinality(ModuleFrames(m)) <= Cardinality(Files))
    /\ (m.pc = "eval") ~> (m.pc = "done" /\ m.result # None)


(***************************************************************************)
(* C29                                                                     *)
(***************************************************************************)
\* C29: an evaluation of an expression at the traced span, through eval or
\* through eval_maybe_mut, appends exactly one value to the log of the
\* tracer while the log is below its cap.
C29_TraceOnce ==
    op.kind = "traced" /\ op.hit /\ op.before < Tracer_MAX =>
        Len(m.tracer.values) = op.before + 1


(***************************************************************************)
(* C30                                                                     *)
(***************************************************************************)
\* C30: in eval and eval_string the check for a pending event comes before
\* the result of the root is looked at: when the root ends with an error
\* while an event is pending, the call fails with the forbidden-flow error
\* of the event and not with the error of the evaluation, which is
\* reported only when no event is pending.
C30_FlowBeforeError ==
    m.pc = "done" /\ m.err # None =>
        /\ ~m.result[1].ok
        /\ m.flow # None =>
              /\ m.result[1].msg = FlowEvent_forbidden(m.flow[1])
              /\ m.result[1].msg # m.err[1]
        /\ m.flow = None => m.result[1].msg = m.err[1]

\* A call has failed with "cannot break outside of loop" although its root
\* ended with an error of its own.
C30_Witness ==
    /\ m.pc = "done" /\ m.err # None
    /\ m.flow # None /\ m.flow[1].kind = "Break"
    /\ m.result[1] = [ok |-> FALSE, msg |-> "cannot break outside of loop"]

====
